---- MODULE Spec2Model ----
(***************************************************************************)
(* Connection lifecycle and message authorization of the catchup client.   *)
(* The remote store (profiles, connection_requests, connections, messages) *)
(* is the shared state; every `await supabase...` of a service function is *)
(* one atomic step against it, so calls of different clients interleave    *)
(* between their remote calls.                                             *)
(***************************************************************************)
EXTENDS Integers, Sequences, FiniteSets, TLC

\* ---------------------------------------------------------------- bounds
Users == {"u1", "u2", "u3"}
Contents == {"hello", "bye"}
MaxRequests == 2        \* connection_requests rows ever inserted
MaxConnections == 2     \* connections rows ever inserted
MaxMessages == 2        \* messages rows ever inserted
NumCalls == 2           \* service calls in flight at the same time

NoUser == "none"
NoMedia == "null"
\* no screen is looked at: the services alone
NoUi == [screen |-> "none"]
Slots == 1..NumCalls

\* error values carried in the `error` field of a service result
NoError == "null"
SenderProfileNotFound == "Sender profile not found"
AlreadyRequested == "Connection request already sent"
AlreadyConnected == "Users are already connected"
NotConnected == "Users are not connected"
RequestNotFound == "Request not found"
NoRows == "PGRST116"
StorageError == "StorageError"

VARIABLES
    profiles,          \* users that have a profiles row with a username
    requests,          \* connection_requests rows
    connections,       \* connections rows
    messages,          \* messages rows
    nextRequestId,     \* ids are generated by the store and never reused
    nextConnectionId,
    nextMessageId,
    storeUp,           \* FALSE while remote calls come back with an error
    calls,             \* per slot: the service call in flight, or its result
    ui                 \* the open screen: its component state, its timers

vars == <<profiles, requests, connections, messages, nextRequestId,
          nextConnectionId, nextMessageId, storeUp, calls, ui>>

store == <<profiles, requests, connections, messages, nextRequestId,
           nextConnectionId, nextMessageId>>

\* ------------------------------------------------------------ call records
\* a and b are the two user ids of the call, id its request or connection id,
\* rows the rows of a query that the call still has to go through
Idle == [op |-> "idle", pc |-> "idle", a |-> NoUser, b |-> NoUser, id |-> 0,
         content |-> "", rows |-> <<>>, data |-> <<>>, error |-> NoError]

\* a returned call: what the caller gets back is the data and the error
Done(c, err) == [Idle EXCEPT !.op = c.op, !.pc = "done", !.data = c.data,
                             !.error = err]

NewCall(op, pc, a, b, id, content) ==
    [op |-> op, pc |-> pc, a |-> a, b |-> b, id |-> id,
     content |-> content, rows |-> <<>>, data |-> <<>>, error |-> NoError]

\* ------------------------------------------------------------ query helpers
RECURSIVE SortById(_)
SortById(rows) ==
    IF rows = {} THEN <<>>
    ELSE LET first == CHOOSE r \in rows : \A s \in rows : r.id <= s.id
         IN <<first>> \o SortById(rows \ {first})

Reverse(s) == [i \in 1..Len(s) |-> s[Len(s) + 1 - i]]

\* mutant: the pending check looks at the requests of the opposite direction
PendingRequests_Reversed(reqs, s, r) ==
    {q \in reqs : q.sender = r /\ q.receiver = s /\ q.status = "pending"}

\* mutant: the pending check leaves out the status filter
PendingRequests_AnyStatus(reqs, s, r) ==
    {q \in reqs : q.sender = s /\ q.receiver = r}

\* .eq('sender_id', s).eq('receiver_id', r).eq('status', 'pending')
PendingRequests(reqs, s, r) ==
    {q \in reqs : q.sender = s /\ q.receiver = r /\ q.status = "pending"}

\* mutant: the two or-filters merged into one, a row touching either user
ExistingConnections_EitherUser(conns, s, r) ==
    {c \in conns : c.user1 = s \/ c.user2 = s \/ c.user1 = r \/ c.user2 = r}

\* .or(user1_id.eq.S,user2_id.eq.S).or(user1_id.eq.R,user2_id.eq.R):
\* the two or-filters are separate query parameters, which the store ANDs
ExistingConnections(conns, s, r) ==
    {c \in conns : (c.user1 = s \/ c.user2 = s) /\ (c.user1 = r \/ c.user2 = r)}

\* mutant: only the ordering (user1, user2) = (x, y) is matched
ConnectionCheck_OneOrder(conns, x, y) ==
    {c \in conns : c.user1 = x /\ c.user2 = y}

\* mutant: a row that touches x or y is taken for a Connection of the pair
ConnectionCheck_EitherUser(conns, x, y) ==
    {c \in conns : c.user1 \in {x, y} \/ c.user2 \in {x, y}}

\* .or(and(user1_id.eq.A,user2_id.eq.B),and(user1_id.eq.B,user2_id.eq.A))
ConnectionCheck(conns, x, y) ==
    {c \in conns : (c.user1 = x /\ c.user2 = y) \/ (c.user1 = y /\ c.user2 = x)}

\* the gate of sendMessage and getConversation
Authorize(x, y) == ConnectionCheck(connections, x, y) # {}

\* ------------------------------------------------------------------- Init
Init ==
    /\ profiles = {"u1", "u2"}
    /\ requests = {}
    /\ connections = {}
    /\ messages = {}
    /\ nextRequestId = 1
    /\ nextConnectionId = 1
    /\ nextMessageId = 1
    /\ storeUp = TRUE
    /\ calls = [p \in Slots |-> Idle]
    /\ ui = NoUi


\* ------------------------------------------------- environment of the store
\* a profile row is created by completeProfile (upsert) and never deleted
CompleteProfile(u) ==
    /\ storeUp
    /\ u \notin profiles
    /\ profiles' = profiles \cup {u}
    /\ UNCHANGED <<requests, connections, messages, nextRequestId,
                   nextConnectionId, nextMessageId, storeUp, calls>>
    /\ UNCHANGED ui

\* the remote store becomes unreachable: every remote call returns an error
StoreFails ==
    /\ storeUp
    /\ storeUp' = FALSE
    /\ UNCHANGED <<store, calls>>
    /\ UNCHANGED ui

StoreRecovers ==
    /\ ~storeUp
    /\ storeUp' = TRUE
    /\ UNCHANGED <<store, calls>>
    /\ UNCHANGED ui

\* the awaiting handler takes the result; the slot is free again
Return(p) ==
    /\ calls[p].pc = "done"
    /\ calls' = [calls EXCEPT ![p] = Idle]
    /\ UNCHANGED <<store, storeUp>>
    /\ UNCHANGED ui

\* ---------------------------------------------------- sendConnectionRequest
\* handleConnectRequest: the receiver is a card of the profile list, which
\* leaves out the current user
SendRequestStart(p, s, r) ==
    /\ calls[p].op = "idle"
    /\ r \in profiles /\ r # s
    /\ calls' = [calls EXCEPT ![p] =
                    NewCall("sendConnectionRequest", "profile", s, r, 0, "")]
    /\ UNCHANGED <<store, storeUp>>
    /\ UNCHANGED ui

\* select username from profiles ... single(); the error is not looked at
SendRequestProfile(p) ==
    LET c == calls[p] IN
    /\ c.op = "sendConnectionRequest" /\ c.pc = "profile"
    /\ calls' = [calls EXCEPT ![p] =
                    IF storeUp /\ c.a \in profiles
                    THEN [c EXCEPT !.pc = "pending"]
                    ELSE Done(c, SenderProfileNotFound)]
    /\ UNCHANGED <<store, storeUp>>
    /\ UNCHANGED ui

\* "Check if a request already exists"; a failed query yields null data
SendRequestPending(p) ==
    LET c == calls[p]
        existingRequests ==
            IF storeUp THEN PendingRequests(requests, c.a, c.b) ELSE {}
    IN
    /\ c.op = "sendConnectionRequest" /\ c.pc = "pending"
    /\ calls' = [calls EXCEPT ![p] =
                    IF existingRequests # {}
                    THEN Done(c, AlreadyRequested)
                    ELSE [c EXCEPT !.pc = "connected"]]
    /\ UNCHANGED <<store, storeUp>>
    /\ UNCHANGED ui

\* "Check if they're already connected"
SendRequestConnected(p) ==
    LET c == calls[p]
        existingConnections ==
            IF storeUp THEN ExistingConnections(connections, c.a, c.b) ELSE {}
    IN
    /\ c.op = "sendConnectionRequest" /\ c.pc = "connected"
    /\ calls' = [calls EXCEPT ![p] =
                    IF existingConnections # {}
                    THEN Done(c, AlreadyConnected)
                    ELSE [c EXCEPT !.pc = "insert"]]
    /\ UNCHANGED <<store, storeUp>>
    /\ UNCHANGED ui

\* "Create the connection request"
SendRequestInsert(p) ==
    LET c == calls[p] IN
    /\ c.op = "sendConnectionRequest" /\ c.pc = "insert"
    /\ nextRequestId <= MaxRequests
    /\ IF storeUp
       THEN /\ requests' = requests \cup
                    {[id |-> nextRequestId, sender |-> c.a,
                      receiver |-> c.b, status |-> "pending"]}
            /\ nextRequestId' = nextRequestId + 1
            /\ calls' = [calls EXCEPT ![p] = Done(c, NoError)]
       ELSE /\ calls' = [calls EXCEPT ![p] = Done(c, StorageError)]
            /\ UNCHANGED <<requests, nextRequestId>>
    /\ UNCHANGED <<profiles, connections, messages, nextConnectionId,
                   nextMessageId, storeUp>>
    /\ UNCHANGED ui

\* the error of a sendConnectionRequest(s, r) whose remote calls all run
\* against the store as it is now, no other call in between
SendRequestError(s, r) ==
    IF ~(storeUp /\ s \in profiles) THEN SenderProfileNotFound
    ELSE IF PendingRequests(requests, s, r) # {} THEN AlreadyRequested
    ELSE IF ExistingConnections(connections, s, r) # {} THEN AlreadyConnected
    ELSE NoError

\* ---------------------------------------------------- getConnectionRequests
\* pending requests of a receiver, newest first; an error yields { requests: [] }
GetConnectionRequests(userId) ==
    IF storeUp
    THEN Reverse(SortById({q \in requests :
                              q.receiver = userId /\ q.status = "pending"}))
    ELSE <<>>

\* -------------------------------------------------- acceptConnectionRequest
AcceptStart(p, requestId) ==
    /\ calls[p].op = "idle"
    /\ requestId \in 1..(nextRequestId - 1)
    /\ calls' = [calls EXCEPT ![p] =
                    NewCall("acceptConnectionRequest", "fetch", NoUser, NoUser,
                            requestId, "")]
    /\ UNCHANGED <<store, storeUp>>
    /\ UNCHANGED ui

\* mutant: the fetch only finds a request that is still pending
AcceptFetch_PendingOnly(p) ==
    LET c == calls[p]
        rows == {q \in requests : q.id = c.id /\ q.status = "pending"}
    IN
    /\ c.op = "acceptConnectionRequest" /\ c.pc = "fetch"
    /\ calls' = [calls EXCEPT ![p] =
                    IF ~storeUp THEN Done(c, StorageError)
                    ELSE IF rows = {} THEN Done(c, NoRows)
                    ELSE LET request == CHOOSE q \in rows : TRUE
                         IN [c EXCEPT !.pc = "update", !.a = request.sender,
                                      !.b = request.receiver]]
    /\ UNCHANGED <<store, storeUp>>
    /\ UNCHANGED ui

\* select * ... eq('id', requestId).single(): no row is an error of the store
AcceptFetch(p) ==
    LET c == calls[p]
        rows == {q \in requests : q.id = c.id}
    IN
    /\ c.op = "acceptConnectionRequest" /\ c.pc = "fetch"
    /\ calls' = [calls EXCEPT ![p] =
                    IF ~storeUp THEN Done(c, StorageError)
                    ELSE IF rows = {} THEN Done(c, NoRows)
                    ELSE LET request == CHOOSE q \in rows : TRUE
                         IN [c EXCEPT !.pc = "update", !.a = request.sender,
                                      !.b = request.receiver]]
    /\ UNCHANGED <<store, storeUp>>
    /\ UNCHANGED ui

\* update({ status: 'accepted' }).eq('id', requestId)
AcceptUpdate(p) ==
    LET c == calls[p] IN
    /\ c.op = "acceptConnectionRequest" /\ c.pc = "update"
    /\ IF storeUp
       THEN /\ requests' = {IF q.id = c.id THEN [q EXCEPT !.status = "accepted"]
                            ELSE q : q \in requests}
            /\ calls' = [calls EXCEPT ![p] = [c EXCEPT !.pc = "insert"]]
       ELSE /\ calls' = [calls EXCEPT ![p] = Done(c, StorageError)]
            /\ UNCHANGED requests
    /\ UNCHANGED <<profiles, connections, messages, nextRequestId,
                   nextConnectionId, nextMessageId, storeUp>>
    /\ UNCHANGED ui

\* mutant: a failed insert puts the request back to pending
AcceptInsert_Rollback(p) ==
    LET c == calls[p] IN
    /\ c.op = "acceptConnectionRequest" /\ c.pc = "insert"
    /\ nextConnectionId <= MaxConnections
    /\ IF storeUp
       THEN /\ connections' = connections \cup
                    {[id |-> nextConnectionId, user1 |-> c.a, user2 |-> c.b]}
            /\ nextConnectionId' = nextConnectionId + 1
            /\ calls' = [calls EXCEPT ![p] = Done(c, NoError)]
            /\ UNCHANGED requests
       ELSE /\ calls' = [calls EXCEPT ![p] = Done(c, StorageError)]
            /\ requests' = {IF q.id = c.id THEN [q EXCEPT !.status = "pending"]
                            ELSE q : q \in requests}
            /\ UNCHANGED <<connections, nextConnectionId>>
    /\ UNCHANGED <<profiles, messages, nextRequestId, nextMessageId, storeUp>>
    /\ UNCHANGED ui

\* insert({ user1_id: request.sender_id, user2_id: request.receiver_id })
AcceptInsert(p) ==
    LET c == calls[p] IN
    /\ c.op = "acceptConnectionRequest" /\ c.pc = "insert"
    /\ nextConnectionId <= MaxConnections
    /\ IF storeUp
       THEN /\ connections' = connections \cup
                    {[id |-> nextConnectionId, user1 |-> c.a, user2 |-> c.b]}
            /\ nextConnectionId' = nextConnectionId + 1
            /\ calls' = [calls EXCEPT ![p] = Done(c, NoError)]
       ELSE /\ calls' = [calls EXCEPT ![p] = Done(c, StorageError)]
            /\ UNCHANGED <<connections, nextConnectionId>>
    /\ UNCHANGED <<profiles, requests, messages, nextRequestId,
                   nextMessageId, storeUp>>
    /\ UNCHANGED ui

\* ------------------------------------------------- declineConnectionRequest
\* one remote call: removes the request row; an id without a row is
\* RequestNotFound
\* mutant: removing a request that is not there is reported as a success
DeclineError_Silent(requestId) ==
    IF ~storeUp THEN StorageError ELSE NoError

DeclineError(requestId) ==
    IF ~storeUp THEN StorageError
    ELSE IF {q \in requests : q.id = requestId} = {} THEN RequestNotFound
    ELSE NoError

\* the connection_requests rows that decline(requestId) leaves
DeclineRows(requestId) ==
    IF DeclineError(requestId) = NoError
    THEN {q \in requests : q.id # requestId}
    ELSE requests

DeclineRequest(requestId) ==
    /\ requestId \in 1..(nextRequestId - 1)
    /\ requests' = DeclineRows(requestId)
    /\ UNCHANGED <<profiles, connections, messages, nextRequestId,
                   nextConnectionId, nextMessageId, storeUp, calls>>
    /\ UNCHANGED ui

\* ------------------------------------------------------------ disconnectUser
\* one remote call: delete().eq('id', connectionId); deleting no row is not
\* an error
DisconnectError(connectionId) == IF storeUp THEN NoError ELSE StorageError

DisconnectUser(connectionId) ==
    /\ connectionId \in 1..(nextConnectionId - 1)
    /\ connections' = IF DisconnectError(connectionId) = NoError
                      THEN {c \in connections : c.id # connectionId}
                      ELSE connections
    /\ UNCHANGED <<profiles, requests, messages, nextRequestId,
                   nextConnectionId, nextMessageId, storeUp, calls>>
    /\ UNCHANGED ui

\* -------------------------------------------------------- getUserConnections
\* rows touching userId, then one profile lookup per row; a row whose lookup
\* fails is skipped
RECURSIVE ResolveProfiles(_, _)
ResolveProfiles(rows, userId) ==
    IF rows = <<>> THEN <<>>
    ELSE LET connection == Head(rows)
             otherUserId == IF connection.user1 = userId
                            THEN connection.user2 ELSE connection.user1
             rest == ResolveProfiles(Tail(rows), userId)
         IN IF otherUserId \in profiles
            THEN <<[connectionId |-> connection.id, userId |-> otherUserId]>>
                 \o rest
            ELSE rest

\* mutant: only the rows that hold userId as user1 are read
GetUserConnections_User1Only(userId) ==
    IF ~storeUp
    THEN [connections |-> <<>>, error |-> StorageError]
    ELSE LET connectionsData ==
                 SortById({c \in connections : c.user1 = userId})
         IN [connections |-> ResolveProfiles(connectionsData, userId),
             error |-> NoError]

GetUserConnections(userId) ==
    IF ~storeUp
    THEN [connections |-> <<>>, error |-> StorageError]
    ELSE LET connectionsData ==
                 SortById({c \in connections :
                              c.user1 = userId \/ c.user2 = userId})
         IN [connections |-> ResolveProfiles(connectionsData, userId),
             error |-> NoError]

\* the call as its remote calls: one query of the connections rows, then
\* one profile lookup per row
GetConnectionsStart(p, userId) ==
    /\ calls[p].op = "idle"
    /\ calls' = [calls EXCEPT ![p] =
                    NewCall("getUserConnections", "query", userId, NoUser,
                            0, "")]
    /\ UNCHANGED <<store, storeUp>>
    /\ UNCHANGED ui

\* "First, get all connections for this user"
GetConnectionsQuery(p) ==
    LET c == calls[p]
        connectionsData ==
            SortById({r \in connections : r.user1 = c.a \/ r.user2 = c.a})
    IN
    /\ c.op = "getUserConnections" /\ c.pc = "query"
    /\ calls' = [calls EXCEPT ![p] =
                    IF ~storeUp THEN Done(c, StorageError)
                    ELSE IF connectionsData = <<>> THEN Done(c, NoError)
                    ELSE [c EXCEPT !.pc = "lookup", !.rows = connectionsData]]
    /\ UNCHANGED <<store, storeUp>>
    /\ UNCHANGED ui

\* mutant: a failed profile lookup ends the listing with its error
GetConnectionsLookup_Abort(p) ==
    LET c == calls[p]
        connection == Head(c.rows)
        otherUserId == IF connection.user1 = c.a
                       THEN connection.user2 ELSE connection.user1
        found == storeUp /\ otherUserId \in profiles
        after == [c EXCEPT !.rows = Tail(c.rows),
                           !.data = Append(c.data,
                                       [connectionId |-> connection.id,
                                        userId |-> otherUserId])]
    IN
    /\ c.op = "getUserConnections" /\ c.pc = "lookup"
    /\ calls' = [calls EXCEPT ![p] =
                    IF ~found THEN Done([c EXCEPT !.data = <<>>], StorageError)
                    ELSE IF after.rows = <<>> THEN Done(after, NoError)
                    ELSE after]
    /\ UNCHANGED <<store, storeUp>>
    /\ UNCHANGED ui

\* one turn of the loop: "Fetch the other user's profile details", on an
\* error "Skip this connection and move to the next"
GetConnectionsLookup(p) ==
    LET c == calls[p]
        connection == Head(c.rows)
        otherUserId == IF connection.user1 = c.a
                       THEN connection.user2 ELSE connection.user1
        found == storeUp /\ otherUserId \in profiles
        after == [c EXCEPT !.rows = Tail(c.rows),
                           !.data = IF found
                                    THEN Append(c.data,
                                            [connectionId |-> connection.id,
                                             userId |-> otherUserId])
                                    ELSE c.data]
    IN
    /\ c.op = "getUserConnections" /\ c.pc = "lookup"
    /\ calls' = [calls EXCEPT ![p] =
                    IF after.rows = <<>> THEN Done(after, NoError) ELSE after]
    /\ UNCHANGED <<store, storeUp>>
    /\ UNCHANGED ui

\* --------------------------------------------------------------- sendMessage
SendMessageStart(p, s, r, content) ==
    /\ calls[p].op = "idle"
    /\ s # r
    /\ calls' = [calls EXCEPT ![p] =
                    NewCall("sendMessage", "check", s, r, 0, content)]
    /\ UNCHANGED <<store, storeUp>>
    /\ UNCHANGED ui

\* "First, verify these users are connected"
SendMessageCheck(p) ==
    LET c == calls[p] IN
    /\ c.op = "sendMessage" /\ c.pc = "check"
    /\ calls' = [calls EXCEPT ![p] =
                    IF ~storeUp THEN Done(c, StorageError)
                    ELSE IF ConnectionCheck(connections, c.a, c.b) = {}
                    THEN Done(c, NotConnected)
                    ELSE [c EXCEPT !.pc = "insert"]]
    /\ UNCHANGED <<store, storeUp>>
    /\ UNCHANGED ui

\* "Send the message"
SendMessageInsert(p) ==
    LET c == calls[p] IN
    /\ c.op = "sendMessage" /\ c.pc = "insert"
    /\ nextMessageId <= MaxMessages
    /\ IF storeUp
       THEN /\ messages' = messages \cup
                    {[id |-> nextMessageId, sender |-> c.a, receiver |-> c.b,
                      content |-> c.content, read |-> FALSE,
                      media |-> NoMedia]}
            /\ nextMessageId' = nextMessageId + 1
            /\ calls' = [calls EXCEPT ![p] = Done(c, NoError)]
       ELSE /\ calls' = [calls EXCEPT ![p] = Done(c, StorageError)]
            /\ UNCHANGED <<messages, nextMessageId>>
    /\ UNCHANGED <<profiles, requests, connections, nextRequestId,
                   nextConnectionId, storeUp>>
    /\ UNCHANGED ui

\* ----------------------------------------------------------- getConversation
\* mutant: the update leaves out the sender filter
MarkRead_AnySender(msgs, from, to) ==
    {IF m.receiver = to /\ ~m.read
     THEN [m EXCEPT !.read = TRUE] ELSE m : m \in msgs}

\* mutant: the update leaves out the receiver filter
MarkRead_AnyReceiver(msgs, from, to) ==
    {IF m.sender = from /\ ~m.read
     THEN [m EXCEPT !.read = TRUE] ELSE m : m \in msgs}

\* update({ read: true }).eq('sender_id', from).eq('receiver_id', to).eq('read', false)
MarkRead(msgs, from, to) ==
    {IF m.sender = from /\ m.receiver = to /\ ~m.read
     THEN [m EXCEPT !.read = TRUE] ELSE m : m \in msgs}

\* messages between the two users, created_at ascending
Conversation(msgs, x, y) ==
    SortById({m \in msgs : (m.sender = x /\ m.receiver = y)
                            \/ (m.sender = y /\ m.receiver = x)})

GetConversationStart(p, userId, otherUserId) ==
    /\ calls[p].op = "idle"
    /\ userId # otherUserId
    /\ calls' = [calls EXCEPT ![p] =
                    NewCall("getConversation", "check", userId, otherUserId,
                            0, "")]
    /\ UNCHANGED <<store, storeUp>>
    /\ UNCHANGED ui

\* mutant: the check lets the call through without a Connection
GetConversationCheck_Open(p) ==
    LET c == calls[p] IN
    /\ c.op = "getConversation" /\ c.pc = "check"
    /\ calls' = [calls EXCEPT ![p] =
                    IF ~storeUp THEN Done(c, StorageError)
                    ELSE [c EXCEPT !.pc = "query"]]
    /\ UNCHANGED <<store, storeUp>>
    /\ UNCHANGED ui

\* "Verify these users are connected"
GetConversationCheck(p) ==
    LET c == calls[p] IN
    /\ c.op = "getConversation" /\ c.pc = "check"
    /\ calls' = [calls EXCEPT ![p] =
                    IF ~storeUp THEN Done(c, StorageError)
                    ELSE IF ConnectionCheck(connections, c.a, c.b) = {}
                    THEN Done(c, NotConnected)
                    ELSE [c EXCEPT !.pc = "query"]]
    /\ UNCHANGED <<store, storeUp>>
    /\ UNCHANGED ui

\* "Get all messages between these users"
GetConversationQuery(p) ==
    LET c == calls[p] IN
    /\ c.op = "getConversation" /\ c.pc = "query"
    /\ calls' = [calls EXCEPT ![p] =
                    IF ~storeUp THEN Done(c, StorageError)
                    ELSE [c EXCEPT !.pc = "mark",
                                   !.data = Conversation(messages, c.a, c.b)]]
    /\ UNCHANGED <<store, storeUp>>
    /\ UNCHANGED ui

\* mutant: the update marks the messages that the reader sent
GetConversationMark_Swapped(p) ==
    LET c == calls[p] IN
    /\ c.op = "getConversation" /\ c.pc = "mark"
    /\ messages' = IF storeUp THEN MarkRead(messages, c.a, c.b) ELSE messages
    /\ calls' = [calls EXCEPT ![p] = Done(c, NoError)]
    /\ UNCHANGED <<profiles, requests, connections, nextRequestId,
                   nextConnectionId, nextMessageId, storeUp>>
    /\ UNCHANGED ui

\* "Mark messages as read"; the result of the update is not looked at
GetConversationMark(p) ==
    LET c == calls[p] IN
    /\ c.op = "getConversation" /\ c.pc = "mark"
    /\ messages' = IF storeUp THEN MarkRead(messages, c.b, c.a) ELSE messages
    /\ calls' = [calls EXCEPT ![p] = Done(c, NoError)]
    /\ UNCHANGED <<profiles, requests, connections, nextRequestId,
                   nextConnectionId, nextMessageId, storeUp>>
    /\ UNCHANGED ui

\* ------------------------------------------------------- markMessagesAsRead
\* one remote call, the same update as the last step of getConversation
MarkMessagesAsRead(userId, senderId) ==
    /\ userId # senderId
    /\ messages' = IF storeUp THEN MarkRead(messages, senderId, userId)
                   ELSE messages
    /\ UNCHANGED <<profiles, requests, connections, nextRequestId,
                   nextConnectionId, nextMessageId, storeUp, calls>>
    /\ UNCHANGED ui

\* ----------------------------------------------------- getUnreadMessageCount
GetUnreadMessageCount(userId) ==
    IF storeUp
    THEN [count |-> Cardinality({m \in messages :
                                    m.receiver = userId /\ ~m.read}),
          error |-> NoError]
    ELSE [count |-> 0, error |-> StorageError]

\* --------------------------------------- single remote call, result observed
\* the calls of one remote call with their result left in the slot for the
\* awaiting handler.  getConnectionRequests returns { requests } only: the
\* error that a caller reads from its result is never set
GetConnectionRequestsCall(p, userId) ==
    /\ calls[p].op = "idle"
    /\ calls' = [calls EXCEPT ![p] =
                    [Idle EXCEPT !.op = "getConnectionRequests", !.pc = "done",
                                 !.data = GetConnectionRequests(userId),
                                 !.error = NoError]]
    /\ UNCHANGED <<store, storeUp>>
    /\ UNCHANGED ui

GetUnreadMessageCountCall(p, userId) ==
    /\ calls[p].op = "idle"
    /\ calls' = [calls EXCEPT ![p] =
                    [Idle EXCEPT !.op = "getUnreadMessageCount", !.pc = "done",
                                 !.data = <<GetUnreadMessageCount(userId).count>>,
                                 !.error = GetUnreadMessageCount(userId).error]]
    /\ UNCHANGED <<store, storeUp>>
    /\ UNCHANGED ui

DisconnectUserCall(p, connectionId) ==
    /\ calls[p].op = "idle"
    /\ connectionId \in 1..(nextConnectionId - 1)
    /\ connections' = IF DisconnectError(connectionId) = NoError
                      THEN {c \in connections : c.id # connectionId}
                      ELSE connections
    /\ calls' = [calls EXCEPT ![p] =
                    [Idle EXCEPT !.op = "disconnectUser", !.pc = "done",
                                 !.error = DisconnectError(connectionId)]]
    /\ UNCHANGED <<profiles, requests, messages, nextRequestId,
                   nextConnectionId, nextMessageId, storeUp>>
    /\ UNCHANGED ui

\* ------------------------------------------------------------ specification
\* the ledger and the registry: requests, acceptance, decline, disconnect,
\* with NumCalls calls in flight
Next ==
    \/ \E u \in Users : CompleteProfile(u)
    \/ StoreFails
    \/ StoreRecovers
    \/ \E p \in Slots : Return(p)
    \/ \E p \in Slots, s \in Users, r \in Users : SendRequestStart(p, s, r)
    \/ \E p \in Slots : SendRequestProfile(p)
    \/ \E p \in Slots : SendRequestPending(p)
    \/ \E p \in Slots : SendRequestConnected(p)
    \/ \E p \in Slots : SendRequestInsert(p)
    \/ \E p \in Slots, id \in 1..MaxRequests : AcceptStart(p, id)
    \/ \E p \in Slots : AcceptFetch(p)
    \/ \E p \in Slots : AcceptUpdate(p)
    \/ \E p \in Slots : AcceptInsert(p)
    \/ \E id \in 1..MaxRequests : DeclineRequest(id)
    \/ \E id \in 1..MaxConnections : DisconnectUser(id)

Spec == Init /\ [][Next]_vars

\* messaging on top of the registry.  The ledger starts with two pending
\* requests, which Spec reaches by two sendConnectionRequest calls: u1 -> u2
\* together with u2 -> u1 (the same pair) or with u3 -> u1 (a third user).
\* One call of several remote calls is in flight at a time; the single-call
\* operations (decline, disconnect, markMessagesAsRead) run between its steps.
MsgSlots == {1}

InitMsg ==
    /\ profiles = Users
    /\ \E second \in {<<"u2", "u1">>, <<"u3", "u1">>} :
          requests = {[id |-> 1, sender |-> "u1", receiver |-> "u2",
                       status |-> "pending"],
                      [id |-> 2, sender |-> second[1], receiver |-> second[2],
                       status |-> "pending"]}
    /\ connections = {}
    /\ messages = {}
    /\ nextRequestId = 3
    /\ nextConnectionId = 1
    /\ nextMessageId = 1
    /\ storeUp = TRUE
    /\ calls = [p \in Slots |-> Idle]
    /\ ui = NoUi

NextMsg ==
    \/ StoreFails
    \/ StoreRecovers
    \/ \E p \in MsgSlots : Return(p)
    \/ \E p \in MsgSlots, id \in 1..MaxRequests : AcceptStart(p, id)
    \/ \E p \in MsgSlots : AcceptFetch(p)
    \/ \E p \in MsgSlots : AcceptUpdate(p)
    \/ \E p \in MsgSlots : AcceptInsert(p)
    \/ \E id \in 1..MaxRequests : DeclineRequest(id)
    \/ \E id \in 1..MaxConnections : DisconnectUser(id)
    \/ \E p \in MsgSlots, s \in Users, r \in Users, t \in Contents :
           SendMessageStart(p, s, r, t)
    \/ \E p \in MsgSlots : SendMessageCheck(p)
    \/ \E p \in MsgSlots : SendMessageInsert(p)
    \/ \E p \in MsgSlots, u \in Users, o \in Users :
           GetConversationStart(p, u, o)
    \/ \E p \in MsgSlots : GetConversationCheck(p)
    \/ \E p \in MsgSlots : GetConversationQuery(p)
    \/ \E p \in MsgSlots : GetConversationMark(p)
    \/ \E u \in Users, o \in Users : MarkMessagesAsRead(u, o)

SpecMsg == InitMsg /\ [][NextMsg]_vars

\* the listings and counters, their results observed, over a store that may
\* fail between any two remote calls.  The store starts as three
\* sendConnectionRequest calls, two accepts and one sendMessage leave it: u1
\* is connected to u2 and to u3, u3 has a pending request from u2, u1 an
\* unread message from u2.
ListSlots == {1}

InitList ==
    /\ profiles = Users
    /\ requests = {[id |-> 1, sender |-> "u1", receiver |-> "u2",
                    status |-> "accepted"],
                   [id |-> 2, sender |-> "u3", receiver |-> "u1",
                    status |-> "accepted"],
                   [id |-> 3, sender |-> "u2", receiver |-> "u3",
                    status |-> "pending"]}
    /\ connections = {[id |-> 1, user1 |-> "u1", user2 |-> "u2"],
                      [id |-> 2, user1 |-> "u3", user2 |-> "u1"]}
    /\ messages = {[id |-> 1, sender |-> "u2", receiver |-> "u1",
                    content |-> "hello", read |-> FALSE, media |-> NoMedia]}
    /\ nextRequestId = 4
    /\ nextConnectionId = 3
    /\ nextMessageId = 2
    /\ storeUp = TRUE
    /\ calls = [p \in Slots |-> Idle]
    /\ ui = NoUi

NextList ==
    \/ StoreFails
    \/ StoreRecovers
    \/ \E p \in ListSlots : Return(p)
    \/ \E p \in ListSlots, u \in Users : GetConnectionsStart(p, u)
    \/ \E p \in ListSlots : GetConnectionsQuery(p)
    \/ \E p \in ListSlots : GetConnectionsLookup(p)
    \/ \E p \in ListSlots, u \in Users : GetConnectionRequestsCall(p, u)
    \/ \E p \in ListSlots, u \in Users : GetUnreadMessageCountCall(p, u)
    \/ \E p \in ListSlots, id \in 1..MaxConnections : DisconnectUserCall(p, id)
    \/ \E id \in 1..MaxRequests : DeclineRequest(id)
    \/ \E u \in Users, o \in Users : MarkMessagesAsRead(u, o)

SpecList == InitList /\ [][NextList]_vars

\* ------------------------------------------------------------- ChatScreen
\* the conversation screen of Me with Peer.  A closure of the component keeps
\* the values of the render that made it: the interval callback keeps sending
\* and loadConversation, and loadConversation keeps messages and
\* otherUserProfile.
Me == "u1"
Peer == "u2"
Drafts == {"", " ", "hello"}
MediaPlaceholder == "Media"
UploadFailed == "Failed to upload media. Please try again."
Photo == "photo.jpg"
PhotoUrl == "chat_media/photo.jpg"

\* messageText.trim()
Trim(text) == IF text = " " THEN "" ELSE text

NoSend == [pc |-> "idle", slot |-> 0, content |-> "", mediaUrl |-> NoMedia]
NoLoad == [pc |-> "idle", messages |-> <<>>, otherUserProfile |-> FALSE]

\* the closure that a render of the component hands to its callbacks
Closure(u) ==
    [sending |-> u.sending, messages |-> u.messages,
     otherUserProfile |-> u.otherUserProfile]

\* the component as mounted: useState initial values, the effect due
ChatMounted ==
    [screen |-> "chat", mounted |-> TRUE, messages |-> <<>>,
     messageText |-> "", mediaToSend |-> NoMedia, sending |-> FALSE,
     otherUserProfile |-> FALSE, effect |-> TRUE, timers |-> {},
     send |-> NoSend, loads |-> [p \in Slots |-> NoLoad], sent |-> 0,
     alert |-> NoError]

\* the slots whose call was made by the screen
Owned(u) == {p \in Slots : p = u.send.slot \/ u.loads[p].pc # "idle"}

\* loadConversation() of closure cl: up to the getConversation request
StartLoad(u, p, cl) ==
    [u EXCEPT !.loads[p] = [pc |-> "call", messages |-> cl.messages,
                            otherUserProfile |-> cl.otherUserProfile]]

LoadCall == NewCall("getConversation", "check", Me, Peer, 0, "")

\* a render changed a dependency of the effect and its run is due: React
\* runs it before the component handles another event, timer or response
\* (here: as soon as a slot is there for its request)
EffectDue ==
    /\ ui.mounted /\ ui.effect
    /\ \E p \in Slots : calls[p].op = "idle"

\* mutant: the effect sets its interval up without clearing the one before
ChatEffect_NoCleanup(p) ==
    /\ ui.screen = "chat" /\ ui.mounted /\ ui.effect
    /\ calls[p].op = "idle"
    /\ ui' = [StartLoad(ui, p, Closure(ui)) EXCEPT
                 !.effect = FALSE, !.timers = ui.timers \cup {Closure(ui)}]
    /\ calls' = [calls EXCEPT ![p] = LoadCall]
    /\ UNCHANGED <<store, storeUp>>

\* the effect after a render that changed user, userId, sending or
\* loadConversation: the cleanup of the run before (clearInterval), then
\* "Initial load" and setInterval
ChatEffect(p) ==
    /\ ui.screen = "chat" /\ ui.mounted /\ ui.effect
    /\ calls[p].op = "idle"
    /\ ui' = [StartLoad(ui, p, Closure(ui)) EXCEPT
                 !.effect = FALSE, !.timers = {Closure(ui)}]
    /\ calls' = [calls EXCEPT ![p] = LoadCall]
    /\ UNCHANGED <<store, storeUp>>

\* mutant: the interval callback refreshes also while a send is in flight
ChatTick_NoSkip(p, t) ==
    /\ ui.screen = "chat" /\ t \in ui.timers
    /\ ~EffectDue
    /\ calls[p].op = "idle"
    /\ ui' = StartLoad(ui, p, t)
    /\ calls' = [calls EXCEPT ![p] = LoadCall]
    /\ UNCHANGED <<store, storeUp>>

\* the interval fires: if (!sending) loadConversation()
ChatTick(p, t) ==
    /\ ui.screen = "chat" /\ t \in ui.timers
    /\ ~EffectDue
    /\ ~t.sending
    /\ calls[p].op = "idle"
    /\ ui' = StartLoad(ui, p, t)
    /\ calls' = [calls EXCEPT ![p] = LoadCall]
    /\ UNCHANGED <<store, storeUp>>

\* the screen is dismissed: the cleanup of the effect clears the interval;
\* handlers in flight run on, their state updates fall on nothing
ChatUnmount ==
    /\ ui.screen = "chat" /\ ui.mounted
    /\ ~EffectDue
    /\ ui' = [ui EXCEPT !.mounted = FALSE, !.timers = {}, !.effect = FALSE]
    /\ UNCHANGED <<store, storeUp, calls>>

\* mutant: only the first load fills the list
ChatLoadResult_InitialOnly(p) ==
    LET load == ui.loads[p]
        result == calls[p]
        replace == /\ ui.mounted /\ result.error = NoError
                   /\ load.messages # result.data /\ load.messages = <<>>
        after == IF replace
                 THEN [ui EXCEPT !.messages = result.data, !.effect = TRUE]
                 ELSE ui
    IN
    /\ ui.screen = "chat" /\ load.pc = "call"
    /\ ~EffectDue
    /\ result.op = "getConversation" /\ result.pc = "done"
    /\ ui' = [after EXCEPT !.loads[p] =
                 IF load.otherUserProfile THEN NoLoad
                 ELSE [load EXCEPT !.pc = "profile"]]
    /\ calls' = [calls EXCEPT ![p] =
                    IF load.otherUserProfile THEN Idle
                    ELSE NewCall("getProfile", "lookup", Peer, NoUser, 0, "")]
    /\ UNCHANGED <<store, storeUp>>

\* loadConversation after its await of getConversation
ChatLoadResult(p) ==
    LET load == ui.loads[p]
        result == calls[p]
        replace == /\ ui.mounted /\ result.error = NoError
                   /\ load.messages # result.data
        after == IF replace
                 THEN [ui EXCEPT !.messages = result.data, !.effect = TRUE]
                 ELSE ui
    IN
    /\ ui.screen = "chat" /\ load.pc = "call"
    /\ ~EffectDue
    /\ result.op = "getConversation" /\ result.pc = "done"
    /\ ui' = [after EXCEPT !.loads[p] =
                 IF load.otherUserProfile THEN NoLoad
                 ELSE [load EXCEPT !.pc = "profile"]]
    /\ calls' = [calls EXCEPT ![p] =
                    IF load.otherUserProfile THEN Idle
                    ELSE NewCall("getProfile", "lookup", Peer, NoUser, 0, "")]
    /\ UNCHANGED <<store, storeUp>>

\* "Load other user's profile if not loaded yet", then finally
ChatLoadProfile(p) ==
    LET found == storeUp /\ Peer \in profiles /\ ui.mounted IN
    /\ ui.screen = "chat" /\ ui.loads[p].pc = "profile"
    /\ ~EffectDue
    /\ calls[p].op = "getProfile"
    /\ ui' = [ui EXCEPT !.loads[p] = NoLoad,
                        !.otherUserProfile = IF found THEN TRUE ELSE @,
                        !.effect = IF found THEN TRUE ELSE @]
    /\ calls' = [calls EXCEPT ![p] = Idle]
    /\ UNCHANGED <<store, storeUp>>

\* the text input and the media picker
ChatType(text) ==
    /\ ui.screen = "chat" /\ ui.mounted
    /\ ~EffectDue
    /\ text # ui.messageText
    /\ ui' = [ui EXCEPT !.messageText = text]
    /\ UNCHANGED <<store, storeUp, calls>>

ChatPickMedia ==
    /\ ui.screen = "chat" /\ ui.mounted
    /\ ~EffectDue
    /\ ui' = [ui EXCEPT !.mediaToSend = IF @ = NoMedia THEN Photo ELSE NoMedia]
    /\ UNCHANGED <<store, storeUp, calls>>

\* the alert of handleSendMessage is dismissed
ChatDismissAlert ==
    /\ ui.screen = "chat"
    /\ ~EffectDue
    /\ ui.alert # NoError
    /\ ui' = [ui EXCEPT !.alert = NoError]
    /\ UNCHANGED <<store, storeUp, calls>>

\* the sendMessage request of handleSendMessage: the service is called
\* with content, mediaUrl and mediaType, and its signature takes
\* (senderId, receiverId, content)
SendCall(content) == NewCall("sendMessage", "check", Me, Peer, 0, content)

\* the temporary message that handleSendMessage appends
TempMessage(u) ==
    [id |-> 0 - (u.sent + 1), sender |-> Me, receiver |-> Peer,
     content |-> u.send.content, read |-> FALSE, media |-> u.send.mediaUrl]

\* handleSendMessage up to its first await: the send button is disabled
\* while sending or with nothing to send
ChatSendStart(p) ==
    LET content == IF Trim(ui.messageText) # "" THEN Trim(ui.messageText)
                   ELSE IF ui.mediaToSend # NoMedia THEN MediaPlaceholder
                   ELSE ""
    IN
    /\ ui.screen = "chat" /\ ui.mounted
    /\ ~EffectDue
    /\ ~ui.sending /\ ui.send.pc = "idle"
    /\ ui.mediaToSend # NoMedia \/ Trim(ui.messageText) # ""
    /\ calls[p].op = "idle"
    /\ nextMessageId <= MaxMessages
    /\ IF ui.mediaToSend # NoMedia
       THEN /\ ui' = [ui EXCEPT !.sending = TRUE, !.effect = TRUE,
                                !.send = [pc |-> "upload", slot |-> p,
                                          content |-> content,
                                          mediaUrl |-> NoMedia]]
            /\ calls' = [calls EXCEPT ![p] =
                            NewCall("uploadChatMedia", "upload", Me, NoUser,
                                    0, "")]
       ELSE /\ ui' = [ui EXCEPT !.sending = TRUE, !.effect = TRUE,
                                !.send = [pc |-> "call", slot |-> p,
                                          content |-> content,
                                          mediaUrl |-> NoMedia]]
            /\ calls' = [calls EXCEPT ![p] = SendCall(content)]
    /\ UNCHANGED <<store, storeUp>>

\* after the await of uploadChatMedia
ChatSendUpload(p) ==
    /\ ui.screen = "chat" /\ ui.send.pc = "upload" /\ ui.send.slot = p
    /\ ~EffectDue
    /\ IF storeUp
       THEN /\ ui' = [ui EXCEPT !.send.pc = "call",
                                !.send.mediaUrl = PhotoUrl]
            /\ calls' = [calls EXCEPT ![p] = SendCall(ui.send.content)]
       ELSE /\ ui' = [ui EXCEPT !.send = NoSend,
                                !.sending = FALSE,
                                !.alert = UploadFailed,
                                !.effect = IF ui.mounted THEN TRUE ELSE @]
            /\ calls' = [calls EXCEPT ![p] = Idle]
    /\ UNCHANGED <<store, storeUp>>

\* mutant: a failed send is appended like a sent one
ChatSendResult_AppendAlways(p) ==
    LET result == calls[p]
        shown == [ui EXCEPT !.messages = Append(@, TempMessage(ui)),
                            !.messageText = "", !.mediaToSend = NoMedia,
                            !.sent = @ + 1]
        after == IF ui.mounted THEN shown ELSE ui
    IN
    /\ ui.screen = "chat" /\ ui.send.pc = "call" /\ ui.send.slot = p
    /\ ~EffectDue
    /\ result.op = "sendMessage" /\ result.pc = "done"
    /\ ui' = [after EXCEPT !.send = NoSend, !.sending = FALSE,
                           !.alert = result.error,
                           !.effect = IF ui.mounted THEN TRUE ELSE @]
    /\ calls' = [calls EXCEPT ![p] = Idle]
    /\ UNCHANGED <<store, storeUp>>

\* after the await of sendMessage: alert, or the temporary message and
\* the cleared draft; finally setSending(false)
ChatSendResult(p) ==
    LET result == calls[p]
        shown == [ui EXCEPT !.messages = Append(@, TempMessage(ui)),
                            !.messageText = "", !.mediaToSend = NoMedia,
                            !.sent = @ + 1]
        after == IF ui.mounted /\ result.error = NoError THEN shown ELSE ui
    IN
    /\ ui.screen = "chat" /\ ui.send.pc = "call" /\ ui.send.slot = p
    /\ ~EffectDue
    /\ result.op = "sendMessage" /\ result.pc = "done"
    /\ ui' = [after EXCEPT !.send = NoSend, !.sending = FALSE,
                           !.alert = result.error,
                           !.effect = IF ui.mounted THEN TRUE ELSE @]
    /\ calls' = [calls EXCEPT ![p] = Idle]
    /\ UNCHANGED <<store, storeUp>>

\* the other user sends into the conversation (the message ids of the
\* bound are shared with a send of the screen that is in flight)
PeerSends(content) ==
    /\ storeUp
    /\ nextMessageId + (IF ui.screen = "chat" /\ ui.send.pc # "idle"
                        THEN 1 ELSE 0) <= MaxMessages
    /\ ConnectionCheck(connections, Peer, Me) # {}
    /\ messages' = messages \cup
            {[id |-> nextMessageId, sender |-> Peer, receiver |-> Me,
              content |-> content, read |-> FALSE, media |-> NoMedia]}
    /\ nextMessageId' = nextMessageId + 1
    /\ UNCHANGED <<profiles, requests, connections, nextRequestId,
                   nextConnectionId, storeUp, calls, ui>>

\* -------------------------------------------------------------- HomeScreen
\* the home screen of Me: the badge counts, the polling effect on [user]
HomeMounted ==
    [screen |-> "home", mounted |-> TRUE, effect |-> TRUE, timers |-> {},
     fetch |-> "idle", pollRequests |-> FALSE, pollUnread |-> FALSE,
     unreadMessageCount |-> 0, pendingRequestsCount |-> 0, user |-> 1]

\* the auth context hands the screen a new user object (setUser on an
\* auth state change); the versions of the object are counted up to a bound
MaxUserObjects == 2

HomeUserChange ==
    /\ ui.screen = "home" /\ ui.mounted
    /\ ~EffectDue
    /\ ui.user < MaxUserObjects
    /\ ui' = [ui EXCEPT !.user = @ + 1, !.effect = TRUE]
    /\ UNCHANGED <<store, storeUp, calls>>

\* mutant: the effect sets its interval up without clearing the one before
HomeEffect_NoCleanup ==
    /\ ui.screen = "home" /\ ui.mounted /\ ui.effect
    /\ ui' = [ui EXCEPT !.effect = FALSE, !.fetch = "unread",
                        !.timers = @ \cup {[user |-> ui.user]}]
    /\ UNCHANGED <<store, storeUp, calls>>

\* the effect: cleanup of the run before, fetchData(), setInterval
HomeEffect ==
    /\ ui.screen = "home" /\ ui.mounted /\ ui.effect
    /\ ui' = [ui EXCEPT !.effect = FALSE, !.fetch = "unread",
                        !.timers = {[user |-> ui.user]}]
    /\ UNCHANGED <<store, storeUp, calls>>

\* fetchData: "Fetch unread message count"
HomeFetchUnread ==
    /\ ui.screen = "home" /\ ui.fetch = "unread"
    /\ ~EffectDue
    /\ ui' = [ui EXCEPT !.fetch = "requests",
                        !.unreadMessageCount =
                            IF ui.mounted THEN GetUnreadMessageCount(Me).count
                            ELSE @]
    /\ UNCHANGED <<store, storeUp, calls>>

\* fetchData: "Fetch pending connection requests"
HomeFetchRequests ==
    /\ ui.screen = "home" /\ ui.fetch = "requests"
    /\ ~EffectDue
    /\ ui' = [ui EXCEPT !.fetch = "idle",
                        !.pendingRequestsCount =
                            IF ui.mounted
                            THEN Len(GetConnectionRequests(Me))
                            ELSE @]
    /\ UNCHANGED <<store, storeUp, calls>>

\* the interval fires: both polls go out
HomeTick(t) ==
    /\ ui.screen = "home" /\ t \in ui.timers
    /\ ~EffectDue
    /\ ui' = [ui EXCEPT !.pollRequests = TRUE, !.pollUnread = TRUE]
    /\ UNCHANGED <<store, storeUp, calls>>

\* getConnectionRequests(user.id).then(...)
HomePollRequests ==
    /\ ui.screen = "home" /\ ui.pollRequests
    /\ ~EffectDue
    /\ ui' = [ui EXCEPT !.pollRequests = FALSE,
                        !.pendingRequestsCount =
                            IF ui.mounted
                            THEN Len(GetConnectionRequests(Me))
                            ELSE @]
    /\ UNCHANGED <<store, storeUp, calls>>

\* getUnreadMessageCount(user.id).then(...)
HomePollUnread ==
    /\ ui.screen = "home" /\ ui.pollUnread
    /\ ~EffectDue
    /\ ui' = [ui EXCEPT !.pollUnread = FALSE,
                        !.unreadMessageCount =
                            IF ui.mounted THEN GetUnreadMessageCount(Me).count
                            ELSE @]
    /\ UNCHANGED <<store, storeUp, calls>>

\* the screen is dismissed: the cleanup of the effect clears the interval
HomeUnmount ==
    /\ ui.screen = "home" /\ ui.mounted
    /\ ~EffectDue
    /\ ui' = [ui EXCEPT !.mounted = FALSE, !.timers = {}, !.effect = FALSE]
    /\ UNCHANGED <<store, storeUp, calls>>

\* --------------------------------------------------------- the open screen
InitScreen ==
    /\ profiles = Users
    /\ requests = {[id |-> 1, sender |-> "u3", receiver |-> Me,
                    status |-> "pending"]}
    /\ connections = {[id |-> 1, user1 |-> Me, user2 |-> Peer]}
    /\ messages = {[id |-> 1, sender |-> Peer, receiver |-> Me,
                    content |-> "hello", read |-> FALSE, media |-> NoMedia]}
    /\ nextRequestId = 2
    /\ nextConnectionId = 2
    /\ nextMessageId = 2
    /\ storeUp = TRUE
    /\ calls = [p \in Slots |-> Idle]
    /\ ui \in {ChatMounted, HomeMounted}

NextScreen ==
    \/ PeerSends("bye")
    \/ ChatUnmount
    \/ HomeUserChange
    \/ HomeEffect
    \/ HomeFetchUnread
    \/ HomeFetchRequests
    \/ \E t \in ui.timers : HomeTick(t)
    \/ HomePollRequests
    \/ HomePollUnread
    \/ HomeUnmount
    \/ \E text \in Drafts : ChatType(text)
    \/ ChatPickMedia
    \/ \E p \in Slots :
          \/ ChatEffect(p)
          \/ \E t \in ui.timers : ChatTick(p, t)
          \/ ChatLoadResult(p)
          \/ ChatLoadProfile(p)
          \/ ChatSendStart(p)
          \/ ChatSendUpload(p)
          \/ ChatSendResult(p)
          \/ SendMessageCheck(p)
          \/ SendMessageInsert(p)
          \/ GetConversationCheck(p)
          \/ GetConversationQuery(p)
          \/ GetConversationMark(p)

SpecScreen == InitScreen /\ [][NextScreen]_vars

InitOpen == InitScreen /\ ui = ChatMounted

\* the conversation screen while the store may fail and the connection may
\* be removed
NextSend ==
    \/ StoreFails
    \/ StoreRecovers
    \/ DisconnectUser(1)
    \/ \E text \in Drafts : ChatType(text)
    \/ ChatPickMedia
    \/ ChatDismissAlert
    \/ \E p \in Slots :
          \/ ChatEffect(p)
          \/ ChatLoadResult(p)
          \/ ChatLoadProfile(p)
          \/ ChatSendStart(p)
          \/ ChatSendUpload(p)
          \/ ChatSendResult(p)
          \/ SendMessageCheck(p)
          \/ SendMessageInsert(p)
          \/ GetConversationCheck(p)
          \/ GetConversationQuery(p)
          \/ GetConversationMark(p)

SpecSend == InitOpen /\ [][NextSend]_vars

\* the conversation screen stays open: every queued callback runs, every
\* request is answered, a live interval fires
NextOpen ==
    \/ PeerSends("bye")
    \/ \E text \in Drafts : ChatType(text)
    \/ \E p \in Slots :
          \/ ChatEffect(p)
          \/ \E t \in ui.timers : ChatTick(p, t)
          \/ ChatLoadResult(p)
          \/ ChatLoadProfile(p)
          \/ ChatSendStart(p)
          \/ ChatSendResult(p)
          \/ SendMessageCheck(p)
          \/ SendMessageInsert(p)
          \/ GetConversationCheck(p)
          \/ GetConversationQuery(p)
          \/ GetConversationMark(p)

FairOpen ==
    /\ WF_vars(\E p \in Slots : ChatEffect(p))
    /\ WF_vars(\E p \in Slots : \E t \in ui.timers : ChatTick(p, t))
    /\ \A p \in Slots :
          /\ WF_vars(ChatLoadResult(p))
          /\ WF_vars(ChatLoadProfile(p))
          /\ WF_vars(ChatSendResult(p))
          /\ WF_vars(SendMessageCheck(p))
          /\ WF_vars(SendMessageInsert(p))
          /\ WF_vars(GetConversationCheck(p))
          /\ WF_vars(GetConversationQuery(p))
          /\ WF_vars(GetConversationMark(p))

SpecOpen == InitOpen /\ [][NextOpen]_vars /\ FairOpen

\* ------------------------------------------------------------------ claims
\* slot p took a step of its call
Stepped(p) == calls'[p] # calls[p]

\* slot p returned with this error in this step
Returned(p, err) ==
    calls[p].pc # "done" /\ calls'[p].pc = "done" /\ calls'[p].error = err

\* a connections row for the unordered pair {x, y}
PairConnected(conns, x, y) ==
    \E c \in conns : {c.user1, c.user2} = {x, y}

\* C1: when sendConnectionRequest(A,B) returns without error,
\* getConnectionRequests(B) lists a pending request from A; and a
\* sendConnectionRequest(A,B) that checks for an existing request while a
\* pending A -> B request is in the ledger (its sender's profile exists, the
\* store answers) returns 'Connection request already sent' and inserts no row.
C1_SendThenAlreadyRequested ==
    [][\A p \in Slots : \A A \in {calls[p].a}, B \in {calls[p].b} :
          LET c == calls[p]
              mine == c.op = "sendConnectionRequest"
          IN /\ (mine /\ c.pc = "insert" /\ Returned(p, NoError))
                   => (\E i \in DOMAIN GetConnectionRequests(B) :
                          /\ GetConnectionRequests(B)[i].sender = A
                          /\ GetConnectionRequests(B)[i].status = "pending")'
             /\ (\E q \in requests : q.sender = A /\ q.receiver = B
                                      /\ q.status = "pending")
                   => /\ A \in profiles
                      /\ (mine /\ c.pc = "pending" /\ storeUp /\ Stepped(p))
                            => /\ Returned(p, AlreadyRequested)
                               /\ requests' = requests
                               /\ nextRequestId' = nextRequestId
      ]_vars

\* C1 witness: a second sendConnectionRequest came back with
\* 'Connection request already sent' while the first one's row is pending
C1_Witness ==
    \E p \in Slots :
       /\ calls[p].op = "sendConnectionRequest" /\ calls[p].pc = "done"
       /\ calls[p].error = AlreadyRequested
       /\ Cardinality({q \in requests : q.status = "pending"}) = 1

\* C2: at most one pending request per ordered pair (sender, receiver)
C2_OnePendingPerOrderedPair ==
    \A q1 \in requests, q2 \in requests :
       (/\ q1.status = "pending" /\ q2.status = "pending"
        /\ q1.sender = q2.sender /\ q1.receiver = q2.receiver) => q1 = q2

\* C3: at most one Connection per unordered pair {A,B}
C3_OneConnectionPerPair ==
    \A c1 \in connections, c2 \in connections :
       {c1.user1, c1.user2} = {c2.user1, c2.user2} => c1 = c2

\* the connection check of slot p's sendMessage or getConversation between
\* x and y is answered by the store in this step
GateStep(p, x, y) ==
    /\ calls[p].op \in {"sendMessage", "getConversation"}
    /\ calls[p].pc = "check" /\ calls[p].a = x /\ calls[p].b = y
    /\ storeUp /\ Stepped(p)

\* request q is accepted and the Connection that its acceptance inserted is
\* in the registry
AcceptedAndLinked(q) ==
    /\ q.status = "accepted"
    /\ \E c \in connections : c.user1 = q.sender /\ c.user2 = q.receiver

\* C4 as stated: every accepted request (A,B) has authorize(A,B) and
\* authorize(B,A) allowed
C4_AcceptedAuthorized ==
    \A q \in requests :
       q.status = "accepted"
          => Authorize(q.sender, q.receiver) /\ Authorize(q.receiver, q.sender)

\* C4 amended: for every accepted request (A,B) whose Connection is still in
\* the registry, the connection check of sendMessage and of getConversation
\* lets the call through in both directions, A to B and B to A
C4_LinkedAuthorizedBothWays ==
    [][\A p \in Slots : \A A \in {calls[p].a}, B \in {calls[p].b} :
          (/\ GateStep(p, A, B)
           /\ \E q \in requests :
                 /\ AcceptedAndLinked(q)
                 /\ {q.sender, q.receiver} = {A, B})
             => calls'[p].pc # "done"
      ]_vars

\* C4 witness: a message went through from the receiver of an accepted
\* request to its sender
C4_Witness ==
    \E q \in requests, m \in messages :
       /\ AcceptedAndLinked(q)
       /\ m.sender = q.receiver /\ m.receiver = q.sender

\* C5: with no Connection for the unordered pair {A,B}, authorize(A,B) is
\* denied and the connection check of sendMessage(A,B,...) ends the call with
\* 'Users are not connected'; the call inserts no Message
C5_NotConnectedRejected ==
    [][\A p \in Slots : \A A \in {calls[p].a}, B \in {calls[p].b} :
          (/\ calls[p].op = "sendMessage" /\ GateStep(p, A, B)
           /\ ~PairConnected(connections, A, B))
             => /\ ~Authorize(A, B)
                /\ Returned(p, NotConnected)
                /\ messages' = messages
      ]_vars

\* C5 witness: a sendMessage came back with 'Users are not connected' between
\* two users of whom one is connected to a third user
C5_Witness ==
    \E p \in Slots :
       /\ calls[p].op = "sendMessage" /\ calls[p].pc = "done"
       /\ calls[p].error = NotConnected
       /\ connections # {}
       /\ messages = {}

\* C6: a Message is inserted only between two users who have a Connection
\* at the moment of the insert
C6_InsertOnlyWhenConnected ==
    [][\A m \in messages' \ messages :
          PairConnected(connections, m.sender, m.receiver)]_vars

\* the pair {x, y} holds exactly one connections row
SingleLink(x, y) ==
    Cardinality({c \in connections : {c.user1, c.user2} = {x, y}}) = 1

\* C7: once disconnectUser has removed a Connection between A and B, the
\* connection check of the next sendMessage(A,B,...) finds no Connection, and
\* the messages exchanged before are unchanged
C7_DisconnectThenNotConnected ==
    [][\A c \in connections :
          (c \notin connections')
             => /\ ~Authorize(c.user1, c.user2)'
                /\ ~Authorize(c.user2, c.user1)'
                /\ messages' = messages
      ]_vars

\* C7 without the duplicate Connection rows that C3 admits
C7_SingleLinkDisconnect ==
    [][\A c \in connections :
          (c \notin connections' /\ SingleLink(c.user1, c.user2))
             => /\ ~Authorize(c.user1, c.user2)'
                /\ ~Authorize(c.user2, c.user1)'
                /\ messages' = messages
      ]_vars

\* the counterpart user ids that getUserConnections(u) returns
Listed(u) ==
    {GetUserConnections(u).connections[i].userId :
        i \in DOMAIN GetUserConnections(u).connections}

\* C8: when acceptConnectionRequest of a request from A to B returns without
\* error, getUserConnections(A) includes B and getUserConnections(B)
\* includes A
C8_AcceptThenListedBothWays ==
    [][\A p \in Slots : \A A \in {calls[p].a}, B \in {calls[p].b} :
          (/\ calls[p].op = "acceptConnectionRequest" /\ calls[p].pc = "insert"
           /\ Returned(p, NoError))
             => (B \in Listed(A) /\ A \in Listed(B))'
      ]_vars

\* C8 witness: an accept has returned without error and both users list
\* each other
C8_Witness ==
    \E p \in Slots, A \in Users, B \in Users :
       /\ calls[p].op = "acceptConnectionRequest" /\ calls[p].pc = "done"
       /\ calls[p].error = NoError
       /\ A # B /\ B \in Listed(A) /\ A \in Listed(B)
       /\ \E q \in requests : q.sender = A /\ q.receiver = B
                               /\ q.status = "accepted"

\* slot p's sendConnectionRequest(s, r) returns in this step, from a remote
\* call that the store answered
SendRequestReturns(p, s, r) ==
    /\ calls[p].op = "sendConnectionRequest"
    /\ calls[p].a = s /\ calls[p].b = r
    /\ storeUp /\ calls[p].pc # "done" /\ calls'[p].pc = "done"

\* no two requests of the ledger are for the same ordered pair
NoRepeatedRequest ==
    \A q1 \in requests, q2 \in requests :
       (q1.sender = q2.sender /\ q1.receiver = q2.receiver) => q1 = q2

\* C9 as stated: while a Connection exists for {A,B}, a
\* sendConnectionRequest(A,B) or (B,A) that returns from one of its checks
\* returns 'Users are already connected' (looked at only where the ledger
\* holds no two requests of the same ordered pair)
C9_ConnectedThenAlreadyConnected ==
    [][\A p \in Slots : \A A \in {calls[p].a}, B \in {calls[p].b} :
          (/\ PairConnected(connections, A, B)
           /\ NoRepeatedRequest
           /\ calls[p].pc \in {"pending", "connected"}
           /\ SendRequestReturns(p, A, B))
             => calls'[p].error = AlreadyConnected
      ]_vars

\* C9 amended: while a Connection exists for {A,B}, sendConnectionRequest(A,B)
\* and (B,A) fail and leave the ledger unchanged: with
\* 'Connection request already sent' when a pending request of the same
\* ordered pair exists (that check runs first), else with
\* 'Users are already connected'; without a Connection for {A,B}, Connections
\* with third users do not stop the request at the connection check
C9_ConnectedThenRefused ==
    [][\A p \in Slots : \A A \in {calls[p].a}, B \in {calls[p].b} :
          LET c == calls[p]
              mine == /\ c.op = "sendConnectionRequest"
                      /\ storeUp /\ Stepped(p)
              pending == \E q \in requests :
                            /\ q.sender = A /\ q.receiver = B
                            /\ q.status = "pending"
          IN /\ (mine /\ PairConnected(connections, A, B)
                      /\ c.pc \in {"pending", "connected"})
                   => /\ UNCHANGED <<requests, nextRequestId>>
                      /\ IF pending /\ c.pc = "pending"
                         THEN Returned(p, AlreadyRequested)
                         ELSE IF c.pc = "pending"
                         THEN calls'[p].pc = "connected"
                         ELSE Returned(p, AlreadyConnected)
             /\ (mine /\ ~PairConnected(connections, A, B)
                      /\ c.pc = "connected")
                   => calls'[p].pc = "insert"
      ]_vars

\* C9 witness: a sendConnectionRequest came back with
\* 'Users are already connected'
C9_Witness ==
    \E p \in Slots :
       /\ calls[p].op = "sendConnectionRequest" /\ calls[p].pc = "done"
       /\ calls[p].error = AlreadyConnected
       /\ connections # {}

\* messages from x to y that y has not read
Unread(msgs, x, y) == {m \in msgs : m.sender = x /\ m.receiver = y /\ ~m.read}

\* slot p's getConversation(A, B) runs its mark-as-read update, answered by
\* the store, in this step
MarkStep(p, A, B) ==
    /\ calls[p].op = "getConversation" /\ calls[p].pc = "mark"
    /\ calls[p].a = A /\ calls[p].b = B
    /\ storeUp /\ Stepped(p)

\* C10 as stated: after getConversation(A,B) the messages that A sent to B
\* are marked read, so unreadCount(B) excludes them, and unreadCount(A) is
\* what it was before the call
C10_ReaderMarksOwnMessages ==
    [][\A p \in Slots : \A A \in {calls[p].a}, B \in {calls[p].b} :
          MarkStep(p, A, B)
             => /\ Unread(messages', A, B) = {}
                /\ GetUnreadMessageCount(A)' = GetUnreadMessageCount(A)
      ]_vars

\* C10 amended: with A and B connected, the Message that sendMessage(A,B,t)
\* inserts is the last element of the conversation, with content t, sender A
\* and read = false, and a getConversation(A,B) that queries the store returns
\* the conversation with its newest Message last; that getConversation(A,B)
\* marks read the unread messages from B to A and nothing else: unreadCount(A)
\* drops by their number, and the Message from A to B stays unread for B, so
\* unreadCount(B) is unaffected
C10_RoundTripMarksIncoming ==
    [][\A p \in Slots : \A A \in {calls[p].a}, B \in {calls[p].b} :
          LET c == calls[p]
              between == {m \in messages :
                             {m.sender, m.receiver} = {A, B}}
          IN /\ (/\ c.op = "sendMessage" /\ c.pc = "insert"
                 /\ Returned(p, NoError))
                   => \E m \in messages' \ messages :
                         /\ m.sender = A /\ m.receiver = B
                         /\ m.content = c.content /\ ~m.read
                         /\ Conversation(messages', A, B) # <<>>
                         /\ Conversation(messages', A, B)
                               [Len(Conversation(messages', A, B))] = m
             /\ (/\ c.op = "getConversation" /\ c.pc = "query"
                 /\ storeUp /\ Stepped(p))
                   => /\ Len(calls'[p].data) = Cardinality(between)
                      /\ \A m \in between :
                            (\A n \in between : n.id <= m.id)
                               => calls'[p].data[Len(calls'[p].data)] = m
             /\ MarkStep(p, A, B)
                   => /\ Unread(messages', A, B) = Unread(messages, A, B)
                      /\ Unread(messages', B, A) = {}
                      /\ GetUnreadMessageCount(B)' = GetUnreadMessageCount(B)
                      /\ GetUnreadMessageCount(A)'.count =
                            GetUnreadMessageCount(A).count
                               - Cardinality(Unread(messages, B, A))
                      /\ Returned(p, NoError)
                      /\ calls'[p].data = calls[p].data
      ]_vars

\* C10 witness: getConversation(A,B) has returned a list that ends with a
\* message from A, which is still unread, and the earlier message from B to A
\* is now read
C10_Witness ==
    \E p \in Slots :
       /\ calls[p].op = "getConversation" /\ calls[p].pc = "done"
       /\ calls[p].error = NoError
       /\ Len(calls[p].data) = 2
       /\ \E m1 \in messages, m2 \in messages :
             /\ m1.id = 1 /\ m2.id = 2
             /\ m1.sender = m2.receiver /\ m2.sender = m1.receiver
             /\ m1.read /\ ~m2.read
             /\ calls[p].data[2].id = 2
             /\ calls[p].data[2].content = m2.content

\* request q is removed from the ledger in this step (only decline removes)
Removed(q) == q \in requests /\ \A r \in requests' : r.id # q.id

\* C11: once decline(requestId) has removed a request, a second
\* decline(requestId) fails with RequestNotFound and leaves the ledger as it
\* is; the id is never given to a later request
C11_DeclineTwiceNotFound ==
    [][\A q \in requests :
          Removed(q)
             => /\ DeclineError(q.id)' = RequestNotFound
                /\ DeclineRows(q.id)' = requests'
                /\ q.id < nextRequestId'
      ]_vars

\* C11 witness: request 1 was declined while request 2 is still in the
\* ledger, and a decline of id 1 now reports RequestNotFound
C11_Witness ==
    /\ nextRequestId = 3
    /\ {q.id : q \in requests} = {2}
    /\ storeUp
    /\ DeclineError(1) = RequestNotFound
    /\ DeclineRows(1) = requests

\* the ids of the requests that getConnectionRequests(u) returns
Incoming(u) ==
    {GetConnectionRequests(u)[i].id : i \in DOMAIN GetConnectionRequests(u)}

\* C12 as stated: a successful decline removes the request from
\* getConnectionRequests(receiver) and from its count, creates no Connection,
\* and a sendConnectionRequest by the same sender to the same receiver right
\* after it succeeds (looked at only where the ledger holds no two requests
\* of the same ordered pair)
C12_DeclineThenRequestAgain ==
    [][\A q \in requests :
          (Removed(q) /\ q.status = "pending" /\ NoRepeatedRequest)
             => /\ q.id \notin Incoming(q.receiver)'
                /\ connections' = connections
                /\ SendRequestError(q.sender, q.receiver)' = NoError
      ]_vars

\* C12 amended: a successful decline removes the request from
\* getConnectionRequests(receiver), whose length drops by one for a pending
\* request, and creates no Connection; the declined request no longer stops
\* a sendConnectionRequest of the same sender to the same receiver, which
\* right after the decline returns 'Connection request already sent' if
\* another pending request of that ordered pair is in the ledger,
\* 'Users are already connected' if the pair has a Connection, and succeeds
\* otherwise; a sendConnectionRequest that succeeds inserts a pending request
C12_DeclineRemovesRequest ==
    [][/\ \A q \in requests :
            Removed(q)
               => /\ q.id \notin Incoming(q.receiver)'
                  /\ Len(GetConnectionRequests(q.receiver))' =
                        Len(GetConnectionRequests(q.receiver))
                           - (IF q.status = "pending" THEN 1 ELSE 0)
                  /\ connections' = connections
                  /\ nextConnectionId' = nextConnectionId
                  /\ SendRequestError(q.sender, q.receiver)' =
                        IF \E r \in requests' :
                              /\ r.sender = q.sender /\ r.receiver = q.receiver
                              /\ r.status = "pending"
                        THEN AlreadyRequested
                        ELSE IF PairConnected(connections', q.sender, q.receiver)
                        THEN AlreadyConnected
                        ELSE NoError
       /\ \A p \in Slots :
            (/\ calls[p].op = "sendConnectionRequest"
             /\ Returned(p, NoError))
               => /\ SendRequestError(calls[p].a, calls[p].b) \in
                        {NoError, AlreadyRequested, AlreadyConnected}
                  /\ \E r \in requests' \ requests :
                        /\ r.sender = calls[p].a /\ r.receiver = calls[p].b
                        /\ r.status = "pending" /\ r.id = nextRequestId
      ]_vars

\* C12 witness: request 1 was declined, no Connection exists, and a
\* sendConnectionRequest after it has returned without error, its request 2
\* pending in the ledger
C12_Witness ==
    \E p \in Slots :
       /\ calls[p].op = "sendConnectionRequest" /\ calls[p].pc = "done"
       /\ calls[p].error = NoError
       /\ nextRequestId = 3 /\ nextConnectionId = 1
       /\ {q.id : q \in requests} = {2}
       /\ \A q \in requests : q.status = "pending"

\* slot p's acceptConnectionRequest runs its fetch, answered by the store, in
\* this step
AcceptFetchStep(p) ==
    /\ calls[p].op = "acceptConnectionRequest" /\ calls[p].pc = "fetch"
    /\ storeUp /\ Stepped(p)

\* C13: acceptConnectionRequest(requestId) on an id without a request row
\* returns RequestNotFound ('Request not found') and writes nothing
C13_AcceptMissingNotFound ==
    [][\A p \in Slots :
          (AcceptFetchStep(p) /\ \A q \in requests : q.id # calls[p].id)
             => /\ Returned(p, RequestNotFound)
                /\ requests' = requests
                /\ connections' = connections
      ]_vars

\* C14: acceptConnectionRequest does not look at the status of the request
\* nor at the Connections of the pair: the accept of a request that is
\* already accepted goes through its three remote calls like the first one,
\* returns without error and inserts one more Connection row for the pair
C14_AcceptNotIdempotent ==
    [][\A p \in Slots : \A A \in {calls[p].a}, B \in {calls[p].b} :
          LET c == calls[p]
              mine == c.op = "acceptConnectionRequest" /\ storeUp /\ Stepped(p)
          IN /\ (mine /\ c.pc = "fetch" /\ \E q \in requests : q.id = c.id)
                   => /\ calls'[p].pc = "update"
                      /\ \E q \in requests :
                            /\ q.id = c.id /\ calls'[p].a = q.sender
                            /\ calls'[p].b = q.receiver
             /\ (mine /\ c.pc = "update")
                   => /\ calls'[p].pc = "insert"
                      /\ \A q \in requests' : q.id = c.id => q.status = "accepted"
             /\ (mine /\ c.pc = "insert")
                   => /\ Returned(p, NoError)
                      /\ connections' = connections \cup
                            {[id |-> nextConnectionId, user1 |-> A, user2 |-> B]}
                      /\ Cardinality(connections') = Cardinality(connections) + 1
      ]_vars

\* C14 witness: the only request ever sent was accepted twice, both accepts
\* have returned without error, and the registry holds two Connection rows
\* for its pair
C14_Witness ==
    /\ nextRequestId = 2
    /\ \A p \in Slots :
          /\ calls[p].op = "acceptConnectionRequest" /\ calls[p].pc = "done"
          /\ calls[p].error = NoError
    /\ \E q \in requests :
          /\ q.status = "accepted"
          /\ Cardinality({c \in connections :
                             c.user1 = q.sender /\ c.user2 = q.receiver}) = 2

C16_ConnectionOnlyByAcceptance ==
    [][\A c \in connections' \ connections :
          \E q \in requests :
             /\ q.sender = c.user1 /\ q.receiver = c.user2
             /\ q.status = "accepted"
      ]_vars

\* the user on the other side of a connections row, seen from u
Counterpart(row, u) == IF row.user1 = u THEN row.user2 ELSE row.user1

\* C17: in getUserConnections(userId) a profile lookup that fails skips its
\* connection and nothing else: the entries collected so far are kept, the
\* loop goes on with the next row, a lookup that succeeds adds its
\* counterpart, and the call returns what it collected with a null error;
\* no entry of the result has userId itself as the counterpart
C17_LookupFailureSkipsOne ==
    [][\A p \in Slots : \A U \in {calls[p].a} :
          LET c == calls[p]
              row == Head(c.rows)
              entry == [connectionId |-> row.id, userId |-> Counterpart(row, U)]
          IN (c.op = "getUserConnections" /\ c.pc = "lookup" /\ Stepped(p))
                => /\ calls'[p].error = NoError
                   /\ calls'[p].data =
                         IF storeUp /\ Counterpart(row, U) \in profiles
                         THEN Append(c.data, entry) ELSE c.data
                   /\ IF Len(c.rows) > 1
                      THEN /\ calls'[p].pc = "lookup"
                           /\ calls'[p].rows = Tail(c.rows)
                      ELSE calls'[p].pc = "done"
                   /\ \A i \in DOMAIN calls'[p].data :
                         calls'[p].data[i].userId # U
      ]_vars

\* C17 witness: getUserConnections(u1) has returned, with a null error, the
\* connection with u3 alone, while the connection with u2, whose lookup
\* failed, is in the registry as well
C17_Witness ==
    \E p \in Slots :
       /\ calls[p].op = "getUserConnections" /\ calls[p].pc = "done"
       /\ calls[p].error = NoError
       /\ calls[p].data = <<[connectionId |-> 2, userId |-> "u3"]>>
       /\ \E r \in connections :
             r.id = 1 /\ r.user1 = "u1" /\ r.user2 = "u2"

\* slot p runs a remote call in this step: a step of a call in flight, or a
\* call of one remote call from entry to result
RemoteStep(p) ==
    /\ Stepped(p)
    /\ \/ calls[p].op # "idle" /\ calls[p].pc # "done"
       \/ calls[p].op = "idle" /\ calls'[p].pc = "done"

\* C18: a storage failure during an operation is reported in the error field
\* of its result: a remote call that the store fails ends the operation with
\* a non-null error (the per-connection profile lookup of getUserConnections,
\* which the spec sets apart, is left out)
C18_FailureReported ==
    [][\A p \in Slots :
          (/\ RemoteStep(p) /\ ~storeUp
           /\ ~(calls[p].op = "getUserConnections" /\ calls[p].pc = "lookup"))
             => calls'[p].pc = "done" /\ calls'[p].error # NoError
      ]_vars

\* C19: the mark-as-read update of getConversation(userId, otherUserId),
\* carried out by the store, sets the read flag of every unread message from
\* otherUserId to userId and changes no other message: not those that userId
\* sent, not those between either user and a third user
C19_MarksIncomingOnly ==
    [][\A p \in Slots : \A U \in {calls[p].a}, O \in {calls[p].b} :
          MarkStep(p, U, O)
             => /\ Returned(p, NoError)
                /\ {m.id : m \in messages'} = {m.id : m \in messages}
                /\ \A m \in messages, n \in messages' :
                      n.id = m.id
                         => IF m.sender = O /\ m.receiver = U
                            THEN n = [m EXCEPT !.read = TRUE]
                            ELSE n = m
      ]_vars

\* C19 witness: u1 holds an unread message from u3 and a message from u2 that
\* a getConversation of u1 with u2 has marked read
C19_Witness ==
    \E p \in Slots, m \in messages, n \in messages :
       /\ calls[p].op = "getConversation" /\ calls[p].pc = "done"
       /\ calls[p].error = NoError /\ Len(calls[p].data) = 1
       /\ calls[p].data[1].id = m.id
       /\ m.receiver = n.receiver /\ m.sender # n.sender
       /\ m.read /\ ~n.read

\* C20: a Message keeps its id, sender, receiver and content and is never
\* deleted; its read flag only goes from false to true, and only in the
\* mark-as-read update of a getConversation or markMessagesAsRead whose
\* userId is the receiver of the message
C20_MessageImmutableButRead ==
    [][\A m \in messages :
          \E n \in messages' :
             /\ n.id = m.id /\ n.sender = m.sender /\ n.receiver = m.receiver
             /\ n.content = m.content
             /\ m.read => n.read
             /\ (~m.read /\ n.read)
                   => \/ \E p \in Slots :
                           /\ calls[p].op = "getConversation"
                           /\ calls[p].pc = "mark" /\ Stepped(p)
                           /\ calls[p].a = m.receiver
                      \/ /\ calls' = calls
                         /\ \A x \in messages \ messages' :
                               x.receiver = m.receiver /\ x.sender = m.sender
      ]_vars

\* C20 witness: of two messages that u1 sent, the one to u2 is read and the
\* one to u3 is not
C20_Witness ==
    \E m \in messages, n \in messages :
       /\ m.sender = n.sender /\ m.receiver # n.receiver
       /\ m.read /\ ~n.read
       /\ m.content \in Contents /\ n.content \in Contents

\* C26: getConversation(userId, otherUserId) without a Connection of the two
\* users returns 'Users are not connected' with an empty list from its
\* connection check, before the query and the update: no Message changes.
\* No step of the call but the update, its last one, writes to messages, and
\* a call that returns an error returns no messages
C26_NotConnectedNoSideEffect ==
    [][\A p \in Slots : \A U \in {calls[p].a}, O \in {calls[p].b} :
          LET c == calls[p]
              mine == c.op = "getConversation" /\ Stepped(p)
          IN /\ (mine /\ c.pc = "check" /\ storeUp
                      /\ ~PairConnected(connections, U, O))
                   => /\ Returned(p, NotConnected)
                      /\ calls'[p].data = <<>>
                      /\ messages' = messages
             /\ (mine /\ c.pc # "mark") => messages' = messages
             /\ (mine /\ calls'[p].pc = "done" /\ calls'[p].error # NoError)
                   => calls'[p].data = <<>>
      ]_vars

\* C26 witness: a getConversation has come back with 'Users are not
\* connected' and an empty list after the Connection was removed, and the
\* message sent over that Connection is still unread
C26_Witness ==
    \E p \in Slots, m \in messages :
       /\ calls[p].op = "getConversation" /\ calls[p].pc = "done"
       /\ calls[p].error = NotConnected /\ calls[p].data = <<>>
       /\ connections = {} /\ nextConnectionId = 2
       /\ ~m.read

\* ------------------------------------------------ AuthProvider and Index
\* the auth context (user, loading, profileComplete), the route that is
\* shown and who navigated to it; session is the session that Supabase
\* holds on the device
MaxAuthEvents == 2
AuthEvents == {"INITIAL_SESSION", "SIGNED_IN", "TOKEN_REFRESHED", "SIGNED_OUT"}

AuthMounted(session) ==
    [screen |-> "index", route |-> "index", by |-> "none",
     session |-> session, user |-> NoUser, loading |-> TRUE,
     profileComplete |-> FALSE, sessionCheck |-> TRUE, initial |-> TRUE,
     lookups |-> {}, events |-> 0]

\* the render of Index: the loading screen, or a Redirect
IndexTarget(u) ==
    IF u.loading THEN "index"
    ELSE IF u.user # NoUser
         THEN IF ~u.profileComplete THEN "profile-setup" ELSE "home"
         ELSE "auth"

\* Index is on screen with a context that makes it redirect: the render
\* follows the state update at once
IndexDue == ui.route = "index" /\ IndexTarget(ui) # "index"

IndexRedirect ==
    /\ ui.screen = "index"
    /\ IndexDue
    /\ ui' = [ui EXCEPT !.route = IndexTarget(ui), !.by = "index"]
    /\ UNCHANGED <<store, storeUp, calls>>

\* supabase.auth.getSession().then(...): checkProfileComplete is called
\* and not awaited, then setLoading(false)
GetSessionThen ==
    /\ ui.screen = "index"
    /\ ~IndexDue
    /\ ui.sessionCheck
    /\ ui' = [ui EXCEPT !.sessionCheck = FALSE,
                        !.user = ui.session,
                        !.loading = FALSE,
                        !.lookups = IF ui.session # NoUser
                                    THEN @ \cup {[kind |-> "session",
                                                  user |-> ui.session]}
                                    ELSE @]
    /\ UNCHANGED <<store, storeUp, calls>>

\* the session that an auth event carries
EventSession(event, u) ==
    IF event = "SIGNED_OUT" THEN NoUser
    ELSE IF event = "SIGNED_IN" THEN u
    ELSE ui.session

\* the onAuthStateChange callback up to its await, or to its end when the
\* event has no session
OnAuthStateChange(event, u) ==
    LET session == EventSession(event, u) IN
    /\ ui.screen = "index"
    /\ ~IndexDue
    /\ ui.events < MaxAuthEvents
    /\ CASE event = "INITIAL_SESSION" -> ui.initial
         [] event = "SIGNED_IN" -> ~ui.initial /\ ui.session = NoUser
         [] event = "TOKEN_REFRESHED" -> ~ui.initial /\ ui.session # NoUser
         [] event = "SIGNED_OUT" -> ~ui.initial /\ ui.session # NoUser
    /\ ui' = [ui EXCEPT
                 !.events = @ + 1,
                 !.initial = FALSE,
                 !.session = session,
                 !.user = session,
                 !.lookups = IF session # NoUser
                             THEN @ \cup {[kind |-> "callback",
                                           user |-> session]}
                             ELSE @,
                 !.route = IF session = NoUser /\ event = "SIGNED_OUT"
                           THEN "auth" ELSE @,
                 !.by = IF session = NoUser /\ event = "SIGNED_OUT"
                        THEN "callback" ELSE @,
                 !.loading = IF session = NoUser THEN FALSE ELSE @]
    /\ UNCHANGED <<store, storeUp, calls>>

\* the profile row has every required field
ProfileIsComplete(userId) == storeUp /\ userId \in profiles

\* checkProfileComplete returns: setProfileComplete; the callback that
\* awaited it goes on to router.replace and setLoading(false)
CheckProfileComplete(l) ==
    LET isComplete == ProfileIsComplete(l.user)
        awaited == l.kind = "callback"
    IN
    /\ ui.screen = "index"
    /\ ~IndexDue
    /\ l \in ui.lookups
    /\ ui' = [ui EXCEPT
                 !.lookups = @ \ {l},
                 !.profileComplete = isComplete,
                 !.route = IF ~awaited THEN @
                           ELSE IF isComplete THEN "home"
                           ELSE "profile-setup",
                 !.by = IF awaited THEN "callback" ELSE @,
                 !.loading = IF awaited THEN FALSE ELSE @]
    /\ UNCHANGED <<store, storeUp, calls>>

InitAuth ==
    /\ profiles = {"u1", "u2"}
    /\ requests = {}
    /\ connections = {}
    /\ messages = {}
    /\ nextRequestId = 1
    /\ nextConnectionId = 1
    /\ nextMessageId = 1
    /\ storeUp = TRUE
    /\ calls = [p \in Slots |-> Idle]
    /\ \E session \in {NoUser, "u1", "u3"} : ui = AuthMounted(session)

NextAuth ==
    \/ CompleteProfile("u3")
    \/ IndexRedirect
    \/ GetSessionThen
    \/ \E event \in AuthEvents, u \in {"u1", "u3"} :
          OnAuthStateChange(event, u)
    \/ \E l \in ui.lookups : CheckProfileComplete(l)

SpecAuth == InitAuth /\ [][NextAuth]_vars

\* -------------------------------------------------------- ConnectionsScreen
\* the requests list of Me, acceptingId (NoRequest for null) and the slots
\* that run a handleAcceptRequest
NoRequest == 0

ConnectionsMounted ==
    [screen |-> "connections", connectionRequests |-> <<>>,
     acceptingId |-> NoRequest, accepts |-> [p \in Slots |-> FALSE],
     loading |-> TRUE]

\* loadData: "Load connection requests"
ConnLoadRequests ==
    /\ ui.screen = "connections" /\ ui.loading
    /\ ui' = [ui EXCEPT !.connectionRequests = GetConnectionRequests(Me),
                        !.loading = FALSE]
    /\ UNCHANGED <<store, storeUp, calls>>

\* the Accept button of the i-th request: disabled={acceptingId === request.id}
ConnAcceptStart(p, i) ==
    /\ ui.screen = "connections"
    /\ i \in 1..Len(ui.connectionRequests)
    /\ ui.acceptingId # ui.connectionRequests[i].id
    /\ calls[p].op = "idle"
    /\ ui' = [ui EXCEPT !.acceptingId = ui.connectionRequests[i].id,
                        !.accepts[p] = TRUE]
    /\ calls' = [calls EXCEPT ![p] =
                    NewCall("acceptConnectionRequest", "fetch", NoUser, NoUser,
                            ui.connectionRequests[i].id, "")]
    /\ UNCHANGED <<store, storeUp>>

\* handleAcceptRequest after its await: alert, loadData() on success,
\* finally setAcceptingId(null)
ConnAcceptResult(p) ==
    /\ ui.screen = "connections" /\ ui.accepts[p]
    /\ calls[p].pc = "done"
    /\ ui' = [ui EXCEPT !.acceptingId = NoRequest,
                        !.accepts[p] = FALSE,
                        !.loading = IF calls[p].error = NoError
                                    THEN TRUE ELSE @]
    /\ calls' = [calls EXCEPT ![p] = Idle]
    /\ UNCHANGED <<store, storeUp>>

InitConn ==
    /\ profiles = Users
    /\ requests = {[id |-> 1, sender |-> "u2", receiver |-> Me,
                    status |-> "pending"],
                   [id |-> 2, sender |-> "u3", receiver |-> Me,
                    status |-> "pending"]}
    /\ connections = {}
    /\ messages = {}
    /\ nextRequestId = 3
    /\ nextConnectionId = 1
    /\ nextMessageId = 1
    /\ storeUp = TRUE
    /\ calls = [p \in Slots |-> Idle]
    /\ ui = ConnectionsMounted

NextConn ==
    \/ StoreFails
    \/ StoreRecovers
    \/ ConnLoadRequests
    \/ \E p \in Slots :
          \/ \E i \in 1..MaxRequests : ConnAcceptStart(p, i)
          \/ ConnAcceptResult(p)
          \/ AcceptFetch(p)
          \/ AcceptUpdate(p)
          \/ AcceptInsert(p)

SpecConn == InitConn /\ [][NextConn]_vars

\* ------------------------------------------------------ ProfileSetupScreen
\* a username is a sequence of characters; TakenNames are the usernames of
\* the profiles in the store (the check_username_unique procedure)
MinUsernameLength == 3
TotalSteps == 3
UsernameChars == {"a", "b", "1", "_"}
Usernames == {<<"a", "b">>, <<"a", "!", "b">>, <<"b", "a", "b">>,
              <<"a", "_", "1">>}
TakenNames == {<<"b", "a", "b">>}
TooShort == "Username must be at least 3 characters"
BadCharacters == "Username can only contain letters, numbers, and underscores"
Taken == "Username is already taken"

\* /^[a-zA-Z0-9_]+$/.test(value)
MatchesPattern(value) ==
    /\ Len(value) > 0
    /\ \A i \in 1..Len(value) : value[i] \in UsernameChars

SetupMounted ==
    [screen |-> "setup", username |-> <<>>, instagramUrl |-> FALSE,
     city |-> FALSE, interests |-> FALSE, usernameError |-> NoError,
     isUsernameUnique |-> FALSE, isUsernameChecking |-> FALSE,
     currentStep |-> 1, timers |-> {}, checks |-> {}]

\* handleUsernameChange: setUsername, and the debounced check of this
\* render is called (every render makes its own debounced function, so
\* the timer of an earlier value stays)
SetupUsernameChange(value) ==
    /\ ui.screen = "setup" /\ ui.currentStep = 1
    /\ value # ui.username
    /\ ui' = [ui EXCEPT !.username = value, !.timers = @ \cup {value}]
    /\ UNCHANGED <<store, storeUp, calls>>

\* the other fields of the form are filled in
SetupFill(field) ==
    /\ ui.screen = "setup"
    /\ \/ field = "instagramUrl" /\ ui.currentStep = 1 /\ ~ui.instagramUrl
          /\ ui' = [ui EXCEPT !.instagramUrl = TRUE]
       \/ field = "city" /\ ui.currentStep = 1 /\ ~ui.city
          /\ ui' = [ui EXCEPT !.city = TRUE]
       \/ field = "interests" /\ ui.currentStep = 2 /\ ~ui.interests
          /\ ui' = [ui EXCEPT !.interests = TRUE]
    /\ UNCHANGED <<store, storeUp, calls>>

\* the 500 ms of a debounced check are over: checkUsername up to its await
SetupCheckUsername(value) ==
    /\ ui.screen = "setup" /\ value \in ui.timers
    /\ ui' = IF Len(value) < MinUsernameLength
             THEN [ui EXCEPT !.timers = @ \ {value},
                             !.usernameError = TooShort,
                             !.isUsernameUnique = FALSE]
             ELSE IF ~MatchesPattern(value)
             THEN [ui EXCEPT !.timers = @ \ {value},
                             !.usernameError = BadCharacters,
                             !.isUsernameUnique = FALSE]
             ELSE [ui EXCEPT !.timers = @ \ {value},
                             !.isUsernameChecking = TRUE,
                             !.usernameError = NoError,
                             !.checks = @ \cup {value}]
    /\ UNCHANGED <<store, storeUp, calls>>

\* checkUsernameUnique: an error of the procedure call counts as not unique
CheckUsernameUnique(value) == storeUp /\ value \notin TakenNames

\* checkUsername after its await
SetupCheckReturns(value) ==
    LET isUnique == CheckUsernameUnique(value) IN
    /\ ui.screen = "setup" /\ value \in ui.checks
    /\ ui' = [ui EXCEPT !.checks = @ \ {value},
                        !.isUsernameUnique = isUnique,
                        !.usernameError = IF isUnique THEN @ ELSE Taken,
                        !.isUsernameChecking = FALSE]
    /\ UNCHANGED <<store, storeUp, calls>>

\* handleNextStep: an alert and no change when the step is not valid
SetupNextStep ==
    LET valid == IF ui.currentStep = 1
                 THEN /\ ui.username # <<>> /\ ui.usernameError = NoError
                      /\ ui.instagramUrl /\ ui.city
                 ELSE IF ui.currentStep = 2 THEN ui.interests
                 ELSE TRUE
    IN
    /\ ui.screen = "setup"
    /\ valid /\ ui.currentStep < TotalSteps
    /\ ui' = [ui EXCEPT !.currentStep = @ + 1]
    /\ UNCHANGED <<store, storeUp, calls>>

\* handlePreviousStep
SetupPreviousStep ==
    /\ ui.screen = "setup"
    /\ ui.currentStep > 1
    /\ ui' = [ui EXCEPT !.currentStep = @ - 1]
    /\ UNCHANGED <<store, storeUp, calls>>

InitSetup ==
    /\ profiles = {"u2"}
    /\ requests = {}
    /\ connections = {}
    /\ messages = {}
    /\ nextRequestId = 1
    /\ nextConnectionId = 1
    /\ nextMessageId = 1
    /\ storeUp = TRUE
    /\ calls = [p \in Slots |-> Idle]
    /\ ui = SetupMounted

NextSetup ==
    \/ \E value \in Usernames \cup {<<>>} : SetupUsernameChange(value)
    \/ \E field \in {"instagramUrl", "city", "interests"} : SetupFill(field)
    \/ \E value \in ui.timers : SetupCheckUsername(value)
    \/ \E value \in ui.checks : SetupCheckReturns(value)
    \/ SetupNextStep
    \/ SetupPreviousStep

SpecSetup == InitSetup /\ [][NextSetup]_vars

\* ------------------------------------------------- claims of the ChatScreen
\* the slot running the sendMessage call of handleSendMessage persists a row
ScreenInsertStep(p) ==
    /\ ui.screen = "chat" /\ ui.send.pc = "call" /\ ui.send.slot = p
    /\ calls[p].op = "sendMessage" /\ calls[p].pc = "insert"
    /\ Returned(p, NoError)

\* C21: sendMessage persists the Message with read = false, never an empty
\* Message (no content and no media), and the media reference that the
\* caller passed is stored with the Message
C21_MediaStored ==
    [][\A p \in Slots :
       \A url \in {IF ui.screen = "chat" THEN ui.send.mediaUrl ELSE NoMedia} :
          ScreenInsertStep(p)
             => \A m \in messages' \ messages :
                   /\ ~m.read
                   /\ m.content # "" \/ m.media # NoMedia
                   /\ m.media = url
      ]_vars

\* a loadConversation of the screen starts in this step (its getConversation
\* request goes out in slot p)
LoadStarts(p) ==
    /\ ui.screen = "chat"
    /\ ui.loads[p].pc = "idle" /\ ui'.loads[p].pc = "call"

\* C22: while a send is in flight on the conversation screen (sending is
\* true), the screen starts no conversation refresh
C22_NoRefreshWhileSending ==
    [][\A p \in Slots : \A sending \in {ui.screen = "chat" /\ ui.sending} :
          sending => ~LoadStarts(p)
      ]_vars

\* a poll round of the open screen starts in this step
PollStarts ==
    \/ \E p \in Slots : LoadStarts(p)
    \/ /\ ui.screen = "home"
       /\ \/ ~ui.pollRequests /\ ui'.pollRequests
          \/ ~ui.pollUnread /\ ui'.pollUnread

\* C23: a mounted home or conversation screen owns at most one live polling
\* timer (a re-run of the effect clears the one before), and after the
\* screen is dismissed it has no timer and no poll round starts
C23_TimersScoped ==
    [][/\ Cardinality(ui'.timers) <= 1
       /\ ~ui'.mounted => ui'.timers = {}
       /\ ~ui.mounted => ~PollStarts
      ]_vars

\* the effect of either screen ran again and replaced a live timer, and a
\* dismissed screen whose timer was live
C23_Witness ==
    /\ ~ui.mounted /\ ui.timers = {}
    /\ \/ ui.screen = "chat" /\ ui.messages # <<>> /\ ui.otherUserProfile
       \/ ui.screen = "home" /\ ui.user = MaxUserObjects /\ ui.fetch = "idle"

\* the messages of the user in a local list: temporary ones and persisted
\* copies
OwnMessages(list) == {i \in 1..Len(list) : list[i].sender = Me}

\* C27: a message sent by the user, once appended to the local list, is
\* never removed from it by a refresh: every step keeps, for each message
\* of the user in the list, that message or its persisted copy
C27_SentMessageStays ==
    [][\A sent \in {IF ui.screen = "chat"
                     THEN Cardinality(OwnMessages(ui.messages)) ELSE 0} :
          ui.screen = "chat"
             => Cardinality(OwnMessages(ui'.messages)) >= sent
      ]_vars

\* the local list shows the Message with this id
Visible(id) ==
    /\ ui.screen = "chat"
    /\ \E i \in 1..Len(ui.messages) : ui.messages[i].id = id

\* a Message from the other user with this id is persisted
Arrived(id) == \E m \in messages : m.id = id /\ m.sender = Peer

\* C24: with the conversation screen open, the users connected and every
\* remote call answered, a persisted Message from the other user is
\* eventually in the local list; the poll round whose response carries it
\* ends with the Message in the list, unless the list that the round
\* started from had it already
C24_EventuallyVisible ==
    /\ \A id \in 1..MaxMessages : Arrived(id) ~> Visible(id)
    /\ [][\A p \in Slots : \A load \in {ui.loads[p]}, result \in {calls[p]} :
             (load.pc = "call" /\ ui'.loads[p].pc # "call")
                => \A i \in 1..Len(result.data) :
                      \/ Visible(result.data[i].id)'
                      \/ \E j \in 1..Len(load.messages) :
                            load.messages[j].id = result.data[i].id
         ]_vars

\* the Message that arrived while the screen was open is in the list
C24_Witness ==
    /\ Arrived(MaxMessages) /\ Visible(MaxMessages)
    /\ ui.mounted /\ ~ui.effect

\* handleSendMessage returns in this step, and whether it failed
SendExits == ui.send.pc # "idle" /\ ui'.send.pc = "idle"

SendFailed ==
    \/ ui.send.pc = "upload"
    \/ ui.send.pc = "call" /\ calls[ui.send.slot].error # NoError

\* a temporary message is appended to the local list in this step
TempAppended ==
    /\ Len(ui'.messages) > 0
    /\ ui'.messages[Len(ui'.messages)].id < 0
    /\ ui'.sent > ui.sent

\* C28: the temporary message is appended only after sendMessage returned
\* without error; a failed upload or a failed sendMessage leaves the local
\* list, the draft and the pending media as they were; sending is false
\* after every exit of handleSendMessage
C28_FailedSendLeavesDraft ==
    [][\A u \in {ui} :
          /\ SendExits => ~ui'.sending
          /\ (SendExits /\ SendFailed)
                => /\ ui'.messages = u.messages
                   /\ ui'.messageText = u.messageText
                   /\ ui'.mediaToSend = u.mediaToSend
                   /\ ui'.alert # NoError
          /\ TempAppended => SendExits /\ ~SendFailed
          /\ ui'.send.pc = "idle" => ~ui'.sending
      ]_vars

\* a send with text and media failed for the missing connection: the alert
\* is up, the draft and the media are still there
C28_Witness ==
    /\ ui.alert = NotConnected /\ ui.send.pc = "idle" /\ ~ui.sending
    /\ ui.messageText = "hello" /\ ui.mediaToSend = Photo
    /\ ui.sent = 0 /\ ui.mounted

\* Index redirects in this step
IndexRedirects ==
    /\ ui.screen = "index"
    /\ ui.route = "index" /\ ui'.route # "index" /\ ui'.by = "index"

\* C25: the root index shows the loading screen while loading, and once
\* loading is false it sends an authenticated user with a complete profile
\* to home, one with an incomplete profile to profile setup, and an
\* unauthenticated user to the auth page, whatever the order of the session
\* check, the profile lookup and the auth-state-change callback
C25_RootRouting ==
    [][\A u \in {IF ui.screen = "index" THEN ui.user ELSE NoUser} :
          /\ IndexRedirects
                => /\ ~ui.loading
                   /\ ui'.route = IF u = NoUser THEN "auth"
                                   ELSE IF u \in profiles THEN "home"
                                   ELSE "profile-setup"
          /\ (ui.screen = "index" /\ ui.loading)
                => IndexTarget(ui) = "index"
      ]_vars

\* an acceptConnectionRequest call for this request id is in flight in slot p
AcceptInFlight(p, id) ==
    /\ calls[p].op = "acceptConnectionRequest"
    /\ calls[p].pc # "done"
    /\ calls[p].id = id

\* C29: on the connections screen at most one acceptConnectionRequest call
\* is in flight for a request id at any time
C29_OneAcceptInFlight ==
    \A p, q \in Slots : \A id \in 1..MaxRequests :
       (ui.screen = "connections" /\ AcceptInFlight(p, id)
          /\ AcceptInFlight(q, id))
          => p = q

\* C30: profile setup is never past step 1 with a username that is shorter
\* than 3 characters, has a character outside letters, digits and
\* underscore, or is taken
C30_ValidUsernamePastStep1 ==
    (ui.screen = "setup" /\ ui.currentStep > 1)
       => /\ Len(ui.username) >= MinUsernameLength
          /\ MatchesPattern(ui.username)
          /\ ui.username \notin TakenNames


====
